---------------------------- MODULE Spec2Model ----------------------------
(***************************************************************************)
(* A model of the Nissan 370Z CAN decoder command line tool                *)
(* (src/can_decoder_cli.py): the frame line parser and decoder, the file   *)
(* reader and the timestamp-paced replay (monitor_file), and the live path *)
(* (CANSerialReader with its read thread and bounded queue, driven by      *)
(* monitor_serial or by direct calls of its methods).                      *)
(*                                                                         *)
(* Text is a sequence of one-character strings.  A Python float or a       *)
(* quotient is an exact rational [n |-> numerator, d |-> denominator].     *)
(* A Python dict is a function whose domain is its key set.                *)
(***************************************************************************)
EXTENDS Integers, Sequences, FiniteSets, TLC

(***************************************************************************)
(* Bounds of the model.                                                    *)
(***************************************************************************)
\* lines a log file holds (monitor_file)
MaxLines == 3
\* lines the serial transport hands to readline during one run
MaxReads == 4
\* capacity of the queue; queue.Queue(maxsize=1000) scaled down
QueueMaxsize == 2
\* calls the direct driver of CANSerialReader makes
MaxCalls == 3
\* read threads one CANSerialReader may create
MaxThreads == 2
\* wall-clock ticks (of one log second) a replay is observed for
MaxClock == 4

(***************************************************************************)
(* Program constants.                                                      *)
(***************************************************************************)
\* thread.join(timeout=2.0), in seconds
JoinTimeout == 2
\* time.sleep(1) after an error in the read loop, in seconds
ErrorPause == 1
\* the console replay polls stdin when i % 10 == 0
QuitPollEvery == 10
\* CANMonitor(history_length=100)
DefaultHistoryLength == 100

(***************************************************************************)
(* Characters and rationals.                                               *)
(***************************************************************************)
DecDigits == <<"0","1","2","3","4","5","6","7","8","9">>
UpperHex == <<"0","1","2","3","4","5","6","7","8","9","A","B","C","D","E","F">>
LowerHex == <<"0","1","2","3","4","5","6","7","8","9","a","b","c","d","e","f">>
\* Text is a sequence of characters of Latin-1 (U+0000 to U+00FF); the
\* classes below are those of Python's str methods and of re on a str
\* pattern, restricted to these characters.
\* the alphabetic characters: a-z, A-Z and, beyond ASCII, the ordinal
\* indicators, the micro sign and the accented letters
Letters == {"a","b","c","d","e","f","g","h","i","j","k","l","m","n","o","p","q",
            "r","s","t","u","v","w","x","y","z","A","B","C","D","E","F","G","H",
            "I","J","K","L","M","N","O","P","Q","R","S","T","U","V","W","X","Y",
            "Z","ª","µ","º","À","Á","Â","Ã","Ä","Å","Æ","Ç","È","É","Ê","Ë","Ì",
            "Í","Î","Ï","Ð","Ñ","Ò","Ó","Ô","Õ","Ö","Ø","Ù","Ú","Û","Ü","Ý","Þ",
            "ß","à","á","â","ã","ä","å","æ","ç","è","é","ê","ë","ì","í","î","ï",
            "ð","ñ","ò","ó","ô","õ","ö","ø","ù","ú","û","ü","ý","þ","ÿ"}
\* the numeric characters other than 0-9 (superscripts and fractions)
OtherNumerics == {"²","³","¹","¼","½","¾"}

\* regex \d
IsDigit(c) == \E i \in 1..10 : DecDigits[i] = c
\* the whitespace characters without an escape of their own: vertical tab
\* (U+000B), the separators U+001C to U+001F, next line (U+0085) and the
\* no-break space (U+00A0)
OtherSpaces == {"", "", "", "", "", "", " "}
\* regex \s, str.split() and str.strip() whitespace
IsSpace(c) == c \in {" ", "\t", "\n", "\r", "\f"} \cup OtherSpaces
\* regex \w
IsWord(c) == IsDigit(c) \/ c \in Letters \/ c \in OtherNumerics \/ c = "_"
IsHexDigit(c) == \E i \in 1..16 : UpperHex[i] = c \/ LowerHex[i] = c
DigitVal(c) == (CHOOSE i \in 1..16 : UpperHex[i] = c \/ LowerHex[i] = c) - 1

Rat(a, b) == [n |-> a, d |-> b]
RatLeq(x, y) == x.n * y.d <= y.n * x.d
RatLess(x, y) == x.n * y.d < y.n * x.d
RatEq(x, y) == x.n * y.d = y.n * x.d
RatSub(x, y) == Rat(x.n * y.d - y.n * x.d, x.d * y.d)

RECURSIVE Pow(_, _)
Pow(b, e) == IF e = 0 THEN 1 ELSE b * Pow(b, e - 1)

\* the value of a run of digits in the given base
RECURSIVE DigitsVal(_, _)
DigitsVal(s, base) ==
    IF Len(s) = 0 THEN 0
    ELSE DigitsVal(SubSeq(s, 1, Len(s) - 1), base) * base + DigitVal(s[Len(s)])

\* the first position at or after i whose character is not in the class
RECURSIVE SpanDigit(_, _)
SpanDigit(s, i) == IF i <= Len(s) /\ IsDigit(s[i]) THEN SpanDigit(s, i + 1) ELSE i
RECURSIVE SpanSpace(_, _)
SpanSpace(s, i) == IF i <= Len(s) /\ IsSpace(s[i]) THEN SpanSpace(s, i + 1) ELSE i
RECURSIVE SpanWord(_, _)
SpanWord(s, i) == IF i <= Len(s) /\ IsWord(s[i]) THEN SpanWord(s, i + 1) ELSE i
\* regex . matches anything but a newline
RECURSIVE SpanDot(_, _)
SpanDot(s, i) == IF i <= Len(s) /\ s[i] # "\n" THEN SpanDot(s, i + 1) ELSE i
RECURSIVE SpanNonSpace(_, _)
SpanNonSpace(s, i) == IF i <= Len(s) /\ ~IsSpace(s[i]) THEN SpanNonSpace(s, i + 1) ELSE i

\* whether the literal lit stands in s at position i
LitAt(s, i, lit) ==
    /\ i + Len(lit) - 1 <= Len(s)
    /\ \A k \in 1..Len(lit) : s[i + k - 1] = lit[k]

\* str.split(): the maximal runs of non-whitespace, in order
RECURSIVE SplitFrom(_, _)
SplitFrom(s, i) ==
    LET a == SpanSpace(s, i)
        b == SpanNonSpace(s, a)
    IN  IF a > Len(s) THEN <<>>
        ELSE <<SubSeq(s, a, b - 1)>> \o SplitFrom(s, b)
Split(s) == SplitFrom(s, 1)

\* str.strip()
RECURSIVE LastNonSpace(_, _)
LastNonSpace(s, j) == IF j >= 1 /\ IsSpace(s[j]) THEN LastNonSpace(s, j - 1) ELSE j
Strip(s) == SubSeq(s, SpanSpace(s, 1), LastNonSpace(s, Len(s)))

(***************************************************************************)
(* int(token, 16): an optional sign, an optional 0x prefix, then hex       *)
(* digits that single underscores may separate.  ok is FALSE where Python  *)
(* raises ValueError.                                                      *)
(***************************************************************************)
RECURSIVE DropUnderscores(_)
DropUnderscores(s) ==
    IF Len(s) = 0 THEN <<>>
    ELSE IF Head(s) = "_" THEN DropUnderscores(Tail(s))
    ELSE <<Head(s)>> \o DropUnderscores(Tail(s))

IntBase16(tok) ==
    LET signed == Len(tok) > 0 /\ tok[1] \in {"+", "-"}
        s1 == IF signed THEN Tail(tok) ELSE tok
        prefixed == Len(s1) >= 2 /\ s1[1] = "0" /\ s1[2] \in {"x", "X"}
        body == IF prefixed THEN SubSeq(s1, 3, Len(s1)) ELSE s1
        valid == /\ Len(body) > 0
                 /\ \A k \in 1..Len(body) : IsHexDigit(body[k]) \/ body[k] = "_"
                 /\ body[Len(body)] # "_"
                 /\ (body[1] = "_" => prefixed)
                 /\ \A k \in 1..(Len(body) - 1) : ~(body[k] = "_" /\ body[k + 1] = "_")
        mag == DigitsVal(DropUnderscores(body), 16)
    IN  IF ~valid THEN [ok |-> FALSE, val |-> 0]
        ELSE [ok |-> TRUE, val |-> IF signed /\ tok[1] = "-" THEN 0 - mag ELSE mag]

\* f"0x{can_id:X}" for can_id >= 0
RECURSIVE HexUpper(_)
HexUpper(v) ==
    IF v < 16 THEN <<UpperHex[v + 1]>>
    ELSE HexUpper(v \div 16) \o <<UpperHex[(v % 16) + 1]>>
CanIdHex(can_id) == <<"0", "x">> \o HexUpper(can_id)

(***************************************************************************)
(* CANMessageParser.parse_line.  The pattern, matched at the start of the  *)
(* line, is: digits, a dot, digits; whitespace; RX: ; whitespace; a word   *)
(* in square brackets; a word in parentheses; whitespace; then the rest of *)
(* the line up to a newline.  Every repetition is followed by a character  *)
(* outside its class, so the greedy match is the only one.                 *)
(* status is "NoMatch" where parse_line returns None, "ValueError" where   *)
(* int(..., 16) raises, and "Frame" where it returns the message dict.     *)
(***************************************************************************)
PatternMatch(line) ==
    LET p1 == SpanDigit(line, 1)
        p2 == SpanDigit(line, p1 + 1)
        p3 == SpanSpace(line, p2)
        p4 == p3 + 3
        p5 == SpanSpace(line, p4)
        p6 == SpanWord(line, p5 + 1)
        p7 == p6 + 2
        p8 == SpanWord(line, p7)
        p9 == SpanSpace(line, p8 + 1)
        p10 == SpanDot(line, p9)
        ok == /\ p1 > 1
              /\ LitAt(line, p1, <<".">>)
              /\ p2 > p1 + 1
              /\ p3 > p2
              /\ LitAt(line, p3, <<"R", "X", ":">>)
              /\ p5 > p4
              /\ LitAt(line, p5, <<"[">>)
              /\ p6 > p5 + 1
              /\ LitAt(line, p6, <<"]", "(">>)
              /\ p8 > p7
              /\ LitAt(line, p8, <<")">>)
              /\ p9 > p8 + 1
    IN  IF ~ok THEN [matched |-> FALSE]
        ELSE [matched |-> TRUE,
              int_part |-> SubSeq(line, 1, p1 - 1),
              frac_part |-> SubSeq(line, p1 + 1, p2 - 1),
              can_id_hex |-> SubSeq(line, p5 + 1, p6 - 1),
              msg_type |-> SubSeq(line, p7, p8 - 1),
              data_hex |-> SubSeq(line, p9, p10 - 1)]

\* float("<digits>.<digits>") as an exact rational
FloatOf(int_part, frac_part) ==
    Rat(DigitsVal(int_part, 10) * Pow(10, Len(frac_part)) + DigitsVal(frac_part, 10),
        Pow(10, Len(frac_part)))

parse_line(line) ==
    LET m == PatternMatch(line) IN
    IF ~m.matched THEN [status |-> "NoMatch"]
    ELSE
      LET id == IntBase16(m.can_id_hex)
          toks == Split(m.data_hex)
          bytes == [k \in 1..Len(toks) |-> IntBase16(toks[k])]
      IN  IF ~id.ok \/ \E k \in 1..Len(toks) : ~bytes[k].ok
          THEN [status |-> "ValueError"]
          ELSE [status |-> "Frame",
                message |->
                  [timestamp |-> FloatOf(m.int_part, m.frac_part),
                   can_id |-> id.val,
                   can_id_hex |-> CanIdHex(id.val),
                   msg_type |-> m.msg_type,
                   data |-> [k \in 1..Len(toks) |-> bytes[k].val],
                   raw |-> Strip(line)]]

(***************************************************************************)
(* CANMessageParser.decode_message.  ids_lookup is the catalog dict.  A    *)
(* numeric signal is a rational, None is PyNone, a categorical signal is a *)
(* string.                                                                 *)
(***************************************************************************)
PyNone == [none |-> TRUE]

\* the throttle percentage cut to one decimal instead of rounded
ThrottleTenths_Truncated(byte) == (byte * 1000) \div 255

\* round(x, 1) of x = (byte / 255) * 100, in tenths: no byte lands on a tie
ThrottleTenths(byte) == (byte * 2000 + 255) \div 510

\* x * y of two numbers, kept as the pair of its factors (the numerator of
\* speed_kph * 0.621371 does not fit a 32-bit integer)
Product(x, y) == [factor1 |-> x, factor2 |-> y]

\* the steering rule read two's complement: raw - 65536 when the top bit is set
SteeringAngle_TwosComplement(b0, b1) ==
    LET steering_raw == b1 * 256 + b0 IN
    IF steering_raw > 32767
    THEN Rat(steering_raw - 65536, 10)
    ELSE Rat(steering_raw, 10)

\* steering_raw = (data[1] << 8) + data[0], and the angle it gives
SteeringAngle(b0, b1) ==
    LET steering_raw == b1 * 256 + b0 IN
    IF steering_raw > 32767
    THEN Rat(0 - (65535 - steering_raw), 10)
    ELSE Rat(steering_raw, 10)

DecodeSignals(can_id, data) ==
    IF can_id = 384 THEN                                   \* 0x180
        IF Len(data) >= 8
        THEN ("rpm" :> Rat(data[1] * 256 + data[2], 8))
             @@ ("throttle_pct" :> Rat(ThrottleTenths(data[6]), 10))
        ELSE <<>>
    ELSE IF can_id = 505 THEN                              \* 0x1F9
        IF Len(data) >= 4
        THEN ("rpm" :> Rat(data[3] * 256 + data[4], 8))
        ELSE <<>>
    ELSE IF can_id = 640 THEN                              \* 0x280
        IF Len(data) >= 6
        THEN ("speed_kph" :> Rat(data[5] * 256 + data[6], 100))
             @@ ("speed_mph" :> Product(Rat(data[5] * 256 + data[6], 100),
                                        Rat(621371, 1000000)))
        ELSE <<>>
    ELSE IF can_id = 2 THEN                                \* 0x002
        IF Len(data) >= 2
        THEN ("steering_angle" :> SteeringAngle(data[1], data[2]))
        ELSE <<>>
    ELSE IF can_id = 1361 THEN                             \* 0x551
        IF Len(data) >= 6
        THEN ("engine_temp" :> Rat(data[1] - 40, 1))
             @@ ("cruise_setpoint_kph" :> IF data[5] > 0 THEN Rat(data[5], 1) ELSE PyNone)
             @@ ("cruise_status" :> IF data[6] = 2 THEN "Active" ELSE "Inactive")
        ELSE <<>>
    ELSE IF can_id = 534 THEN                              \* 0x216
        IF Len(data) >= 1
        THEN IF data[1] = 100 THEN ("clutch" :> "Engaged")
             ELSE IF data[1] = 108 THEN ("clutch" :> "Pressed")
             ELSE ("clutch" :> ("Unknown (" \o ToString(data[1]) \o ")"))
        ELSE <<>>
    ELSE IF can_id = 1057 THEN                             \* 0x421
        IF Len(data) >= 1
        THEN IF data[1] = 24 THEN ("gear" :> "Neutral")
             ELSE IF data[1] = 128 THEN ("gear" :> "1")
             ELSE IF data[1] = 16 THEN ("gear" :> "R")
             ELSE ("gear" :> ("Unknown (" \o ToString(data[1]) \o ")"))
        ELSE <<>>
    ELSE <<>>

\* decode_message with the payload padded with zero bytes to eight
decode_message_Padded(ids_lookup, message) ==
    LET can_id == message.can_id
        padded == [k \in 1..8 |-> IF k <= Len(message.data) THEN message.data[k] ELSE 0]
        info == IF can_id \in DOMAIN ids_lookup
                THEN ("source" :> ids_lookup[can_id].source)
                     @@ ("frequency" :> ids_lookup[can_id].frequency)
                ELSE ("source" :> "Unknown") @@ ("frequency" :> "Unknown")
    IN  DecodeSignals(can_id, padded) @@ info @@ message

decode_message(ids_lookup, message) ==
    LET can_id == message.can_id
        info == IF can_id \in DOMAIN ids_lookup
                THEN ("source" :> ids_lookup[can_id].source)
                     @@ ("frequency" :> ids_lookup[can_id].frequency)
                ELSE ("source" :> "Unknown") @@ ("frequency" :> "Unknown")
    IN  DecodeSignals(can_id, message.data) @@ info @@ message

(***************************************************************************)
(* Sample input: lines of the transport or of a log file, and the catalog  *)
(* CANMessageParser() has loaded.                                          *)
(***************************************************************************)
LineRpm == <<"1","0","0","0",".","2","5","0"," ","R","X",":"," ","[","0","1","8","0","]","(","e","x","t",")"," ","0","7"," ","D","0"," ","0","0"," ","0","0"," ","0","0"," ","8","0"," ","0","0"," ","0","0","\n">>
LineSteer == <<"2",".","5","0","0"," ","R","X",":"," ","[","0","0","0","2","]","(","s","t","d",")"," ","6","4"," ","0","0","\n">>
LineGear == <<"1",".","0","0","0"," ","R","X",":"," ","[","0","4","2","1","]","(","s","t","d",")"," ","8","0","\n">>
LineNoMatch == <<"b","o","o","t"," ","o","k","\n">>
LineBadId == <<"3",".","0","0","0"," ","R","X",":"," ","[","0","1","G","0","]","(","e","x","t",")"," ","0","0","\n">>
LineBadByte == <<"3",".","0","0","0"," ","R","X",":"," ","[","0","4","2","1","]","(","s","t","d",")"," ","Z","Z","\n">>

SampleCatalog == (384 :> [source |-> "ECM", frequency |-> "100Hz", data_bytes |-> "8"])


\* log lines whose timestamps are out of order, for the replay
LineLate == <<"2",".","0"," ","R","X",":"," ","[","0","4","2","1","]","(","s","t","d",")"," ","1","8","\n">>
LineEarly == <<"1",".","0"," ","R","X",":"," ","[","0","2","1","6","]","(","s","t","d",")"," ","6","C","\n">>

\* what a log file may hold, line by line
SampleFileLines == {LineLate, LineEarly, LineNoMatch, LineBadByte}
\* what readline may return from the serial transport
SampleSerialLines == {LineGear, LineNoMatch, LineBadId}
\* replay_speed values (--replay-speed), all positive
SampleSpeeds == {Rat(1, 2), Rat(1, 1), Rat(2, 1)}

\* the sequences over S of length at most n
RECURSIVE SeqsUpTo(_, _)
SeqsUpTo(S, n) ==
    IF n = 0 THEN {<<>>}
    ELSE LET shorter == SeqsUpTo(S, n - 1)
         IN  shorter \cup {Append(q, x) : q \in {r \in shorter : Len(r) = n - 1}, x \in S}

(***************************************************************************)
(* State.  pc is the position of the main thread in the program that runs  *)
(* (monitor_file, monitor_serial, or a driver calling CANSerialReader's    *)
(* methods one after another).  A dict the program creates is an object    *)
(* [obj |-> identity, val |-> the dict]: two frames parsed from equal      *)
(* lines are equal dicts and distinct objects.                             *)
(***************************************************************************)
VARIABLES
    program,         \* "monitor_file", "monitor_serial" or "reader_api"
    pc,              \* position of the main thread
    use_curses,      \* not args.console
    ids_lookup,      \* CANMessageParser.ids_lookup
    monitor,         \* the CANMonitor: db, latest_values, message_history
    delivered,       \* the objects monitor.update has stored (under the driver:
                     \* the objects get_message has returned)
    \* monitor_file
    file_lines,      \* the log file
    fpos,            \* lines of the file read_all has consumed
    messages,        \* the list read_all builds and monitor_file sorts
    loaded,          \* the list as read_all returned it, before the sort
    replay_speed,    \* replay_speed
    i,               \* the replay loop's index (0-based)
    now,             \* time.time(), in ticks of half a second
    start_time,      \* start_time
    sinceCheck,      \* frames delivered since the loop last looked for a quit key
    \* CANSerialReader
    serial,          \* self.serial: "none", "open" or "closed"
    running,         \* self.running
    message_queue,   \* self.message_queue
    thread,          \* self.thread: 0 for None, else the thread last created
    tpc,             \* position of each read thread
    tmsg,            \* the decoded object each read thread is about to enqueue
    tsleep,          \* seconds left of each read thread's error pause
    nread,           \* lines readline has returned
    readLog,         \* the objects the read threads decoded, in read order
    dropped,         \* the objects dropped because the queue was full
    joinElapsed,     \* seconds stop() has waited in join
    calls,           \* calls the driver has made
    curCall,         \* the method of CANSerialReader being executed
    prevCall,        \* the method that returned last
    stopsInRow,      \* how many stop() calls in a row have just returned
    ret,             \* what the last call returned (as text), or "raised"
    \* CANMessageParser on its own
    arg,             \* the line handed to parse_line
    result,          \* what parse_line or decode_message returned
    ids_file,        \* the identifier file: whether it opens, and its rows
    row,             \* rows of the identifier file read so far
    \* history
    signalled        \* the read threads that were alive when stop() last set
                     \* self.running = False

monVars == <<monitor, delivered>>
fileVars == <<file_lines, fpos, messages, loaded, replay_speed, i, now, start_time, sinceCheck>>
readerVars == <<serial, running, message_queue, thread>>
threadVars == <<tpc, tmsg, tsleep, nread, readLog, dropped>>
driverVars == <<joinElapsed, calls, curCall, prevCall, stopsInRow, ret>>
auxVars == <<arg, result, ids_file, row, signalled>>
vars == <<program, pc, use_curses, ids_lookup, monVars, fileVars, readerVars,
          threadVars, driverVars, auxVars>>

PyObj(id, dict) == [obj |-> id, val |-> dict]
Ts(o) == o.val.timestamp

(***************************************************************************)
(* CANMonitor.                                                             *)
(***************************************************************************)
NoMonitor == [db |-> "absent", latest_values |-> <<>>, message_history |-> <<>>,
              history_length |-> 0]

\* a Python str, as a value that differs from None whatever its text
PyStr(text) == [str |-> text]

\* the truth value of a str or None: `if db_path`
Truthy(value) == value # PyNone /\ value # PyStr("")

\* the db_path handed to monitor_file, monitor_serial or CANMonitor: None
\* (main under --no-db) or a path (main's -d, whatever its text)
SampleDbPaths == {PyStr("logs/can_database.db"), PyStr("None"), PyStr(""), PyNone}

\* CANMonitor.__init__(screen, db_path, history_length):
\* self.db = CANDatabase(db_path) if db_path else None comes first, and
\* CANDatabase.__init__ raises when the directory of the path cannot be made
\* or the file cannot be opened (opens = FALSE); with a screen,
\* curses.start_color() comes last and raises on a terminal without colours
\* (colors = FALSE).  When __init__ raises no monitor comes to be.
NewMonitor(screen, db_path, history_length, opens, colors) ==
    IF (Truthy(db_path) /\ ~opens) \/ (screen /\ ~colors)
    THEN [raised |-> TRUE]
    ELSE [raised |-> FALSE,
          self |->
            [db |-> IF Truthy(db_path) THEN "open" ELSE "None",
             latest_values |->
                [rpm |-> Rat(0, 1), speed_kph |-> Rat(0, 1), throttle_pct |-> Rat(0, 1),
                 steering_angle |-> Rat(0, 1), engine_temp |-> Rat(0, 1), gear |-> "N",
                 clutch |-> "Engaged", cruise_status |-> "Inactive",
                 cruise_setpoint_kph |-> Rat(0, 1)],
             message_history |-> <<>>,
             history_length |-> history_length]]

\* a deque without maxlen: append never evicts
DequeAppend_Unbounded(dq, x, maxlen) == Append(dq, x)

\* deque(maxlen=n).append(x)
DequeAppend(dq, x, maxlen) ==
    LET longer == Append(dq, x)
    IN  IF Len(longer) > maxlen THEN Tail(longer) ELSE longer

\* update as self.latest_values.update(message) would make it: every key of
\* the frame is stored
update_MergingFrame(mon, message) ==
    LET can_id == message.can_id_hex
        history == IF can_id \in DOMAIN mon.message_history
                   THEN mon.message_history[can_id] ELSE <<>>
    IN  [mon EXCEPT
           !.latest_values =
              [key \in DOMAIN @ \cup DOMAIN message |->
                  IF key \in DOMAIN message THEN message[key] ELSE @[key]],
           !.message_history =
              (can_id :> DequeAppend(history, message, mon.history_length)) @@ @]

\* CANMonitor.update: the database inserts and the screen refresh leave the
\* monitor's dictionaries alone
update(mon, message) ==
    LET can_id == message.can_id_hex
        history == IF can_id \in DOMAIN mon.message_history
                   THEN mon.message_history[can_id] ELSE <<>>
    IN  [mon EXCEPT
           !.latest_values =
              [key \in DOMAIN @ |-> IF key \in DOMAIN message THEN message[key] ELSE @[key]],
           !.message_history =
              (can_id :> DequeAppend(history, message, mon.history_length)) @@ @]

\* the keys of latest_values in the order of the dict, the order in which
\* update's for loop visits them
LatestKeys == <<"rpm", "speed_kph", "throttle_pct", "steering_angle", "engine_temp",
                "gear", "clutch", "cruise_status", "cruise_setpoint_kph">>

\* the monitors a KeyboardInterrupt inside update(message) can leave behind:
\* the for loop over latest_values has done its first k keys and the history
\* has not been appended to
InterruptedUpdates(mon, message) ==
    {[mon EXCEPT
        !.latest_values =
           [key \in DOMAIN @ |->
               IF key \in DOMAIN message /\ \E j \in 1..k : LatestKeys[j] = key
               THEN message[key] ELSE @[key]]] : k \in 0..Len(LatestKeys)}

\* CANMonitor.close: if self.db: self.db.close()
close(mon) == IF mon.db # "None" THEN [mon EXCEPT !.db = "closed"] ELSE mon

\* what `finally: monitor.close()` leaves of the monitor when an exception
\* is on its way out of a loop: the monitor closed, or as it was when a
\* KeyboardInterrupt arrives as the finally block is entered
AfterFinally(mon) == {close(mon), mon}


(***************************************************************************)
(* monitor_file: CANFileReader.read_all, the sort, and the two replay      *)
(* loops.                                                                  *)
(***************************************************************************)
\* list.sort(key=timestamp): stable, so x goes after every element not above it
RECURSIVE InsertByTimestamp(_, _)
InsertByTimestamp(sorted, x) ==
    IF Len(sorted) = 0 THEN <<x>>
    ELSE IF RatLeq(Ts(sorted[Len(sorted)]), Ts(x)) THEN Append(sorted, x)
    ELSE Append(InsertByTimestamp(SubSeq(sorted, 1, Len(sorted) - 1), x),
                sorted[Len(sorted)])

\* monitor_file without messages.sort(key=...): the file's order is kept
SortByTimestamp_Unsorted(list) == list

RECURSIVE SortByTimestamp(_)
SortByTimestamp(list) ==
    IF Len(list) = 0 THEN <<>>
    ELSE InsertByTimestamp(SortByTimestamp(SubSeq(list, 1, Len(list) - 1)),
                           list[Len(list)])

\* a duration in seconds as clock ticks of half a second, rounded up
Ticks(seconds) == (2 * seconds.n + seconds.d - 1) \div seconds.d

\* one line of the file through parse_line and decode_message; the first
\* ValueError leaves the for loop for the except branch, which prints the
\* error, and read_all returns what it has; when that print raises
\* (printed = FALSE) the exception leaves read_all and monitor_file
ReadAllLine ==
    /\ program = "monitor_file" /\ pc = "read_all"
    /\ fpos < Len(file_lines)
    /\ LET parsed == parse_line(file_lines[fpos + 1]) IN
         /\ fpos' = fpos + 1
         /\ IF parsed.status = "ValueError"
            THEN /\ \E printed \in BOOLEAN :
                      /\ pc' = IF printed THEN "loaded" ELSE "raised"
                      /\ loaded' = IF printed THEN messages ELSE loaded
                 /\ UNCHANGED messages
            ELSE /\ pc' = pc
                 /\ UNCHANGED loaded
                 /\ messages' =
                      IF parsed.status = "Frame"
                      THEN Append(messages,
                                  PyObj(fpos + 1, decode_message(ids_lookup, parsed.message)))
                      ELSE messages
    /\ UNCHANGED <<auxVars, program, use_curses, ids_lookup, monVars, file_lines, replay_speed,
                   i, now, start_time, sinceCheck, readerVars, threadVars, driverVars>>

\* a KeyboardInterrupt while read_all reads the file: read_all catches
\* Exception only, so it leaves read_all and monitor_file with nothing loaded
ReadAllInterrupted ==
    /\ program = "monitor_file" /\ pc = "read_all"
    /\ pc' = "raised"
    /\ UNCHANGED <<auxVars, program, use_curses, ids_lookup, monVars, fileVars, readerVars,
                   threadVars, driverVars>>

\* read_all after the last line: the count is printed and the list
\* returned; when the print raises, the except branch catches it and its
\* own print raises out of read_all
ReadAllEnd ==
    /\ program = "monitor_file" /\ pc = "read_all"
    /\ fpos = Len(file_lines)
    /\ \E printed \in BOOLEAN :
         /\ pc' = IF printed THEN "loaded" ELSE "raised"
         /\ loaded' = IF printed THEN messages ELSE loaded
    /\ UNCHANGED <<auxVars, program, use_curses, ids_lookup, monVars, file_lines, fpos, messages,
                   replay_speed, i, now, start_time, sinceCheck, readerVars, threadVars,
                   driverVars>>

\* the head of each of the four loops, before its try block:
\* monitor = CANMonitor(screen, db_path), and then the statements up to the
\* try.  When the try is not reached (entered = FALSE) the monitor that was
\* made is left open: with a screen curses.curs_set(0) raises on a terminal
\* that cannot hide its cursor, and in either mode a KeyboardInterrupt can
\* arrive there.
LoopSetup(curses, db_path, opens, colors, entered) ==
    LET made == NewMonitor(curses, db_path, DefaultHistoryLength, opens, colors)
    IN  [raised |-> made.raised \/ ~entered,
         monitor |-> IF made.raised THEN monitor ELSE made.self]

\* monitor_file after read_all, up to the replay loop's first iteration;
\* with no messages it prints that and returns, or raises when the print
\* does
MonitorFileStart ==
    /\ program = "monitor_file" /\ pc = "loaded"
    /\ IF Len(messages) = 0
       THEN /\ \E printed \in BOOLEAN : pc' = IF printed THEN "done" ELSE "raised"
            /\ UNCHANGED <<messages, monitor, start_time, i>>
       ELSE /\ messages' = SortByTimestamp(messages)
            /\ \E db_path \in SampleDbPaths, opens \in BOOLEAN, colors \in BOOLEAN,
                  entered \in BOOLEAN :
                 LET setup == LoopSetup(use_curses, db_path, opens, colors, entered)
                 IN  /\ monitor' = setup.monitor
                     /\ pc' = IF setup.raised THEN "raised"
                              ELSE IF use_curses THEN "curses_getch" ELSE "console_sleep"
            /\ start_time' = now
            /\ i' = 0
    /\ UNCHANGED <<auxVars, program, use_curses, ids_lookup, delivered, file_lines, fpos, loaded,
                   replay_speed, now, sinceCheck, readerVars, threadVars, driverVars>>

\* _replay_with_curses: while i < len(messages), screen.getch() and the 'q' test
CursesGetch ==
    /\ program = "monitor_file" /\ pc = "curses_getch"
    /\ IF i >= Len(messages)
       THEN pc' = "curses_end" /\ UNCHANGED sinceCheck
       ELSE /\ sinceCheck' = 0
            /\ \E key \in {"q", "none"} :
                 pc' = IF key = "q" THEN "curses_end" ELSE "curses_pace"
    /\ UNCHANGED <<auxVars, program, use_curses, ids_lookup, monVars, file_lines, fpos, messages,
                   loaded, replay_speed, i, now, start_time, readerVars, threadVars,
                   driverVars>>

\* the pacing test left out: every message is taken as due
Due_Always(message) == TRUE

\* the pacing test with its comparison turned around
Due_Inverted(message) ==
    RatLeq(Rat((now - start_time) * replay_speed.n, 2 * replay_speed.d),
           RatSub(Ts(message), Ts(messages[1])))

\* elapsed >= message['timestamp'] - ref_timestamp
Due(message) ==
    RatLeq(RatSub(Ts(message), Ts(messages[1])),
           Rat((now - start_time) * replay_speed.n, 2 * replay_speed.d))

\* _replay_with_curses: deliver message i if it is due, else sleep(0.01).
\* Nothing in the loop catches what is raised here; the finally closes the
\* monitor and the exception leaves monitor_file:
\*   "interrupt"     a KeyboardInterrupt outside the getch, during the sleep
\*                   or as update is entered, or an error of the database
\*                   insert at the head of update: nothing is stored;
\*   "in_update"     a KeyboardInterrupt inside update, its for loop part
\*                   done and the history not appended to;
\*   "display_error" an error of the screen refresh at the end of update (or
\*                   a KeyboardInterrupt there): the frame is stored, i += 1
\*                   is not reached.
CursesPace ==
    /\ program = "monitor_file" /\ pc = "curses_pace"
    /\ \E outcome \in {"ok", "interrupt"}
                      \cup (IF Due(messages[i + 1])
                            THEN {"in_update", "display_error"} ELSE {}) :
         IF outcome = "interrupt"
         THEN /\ monitor' \in AfterFinally(monitor)
              /\ pc' = "raised"
              /\ UNCHANGED <<delivered, sinceCheck, i>>
         ELSE IF outcome = "in_update"
         THEN /\ \E left \in InterruptedUpdates(monitor, messages[i + 1].val) :
                   monitor' \in AfterFinally(left)
              /\ pc' = "raised"
              /\ UNCHANGED <<delivered, sinceCheck, i>>
         ELSE IF outcome = "display_error"
         THEN /\ monitor' \in AfterFinally(update(monitor, messages[i + 1].val))
              /\ delivered' = Append(delivered, messages[i + 1])
              /\ sinceCheck' = sinceCheck + 1
              /\ pc' = "raised"
              /\ UNCHANGED i
         ELSE /\ IF Due(messages[i + 1])
                 THEN /\ monitor' = update(monitor, messages[i + 1].val)
                      /\ delivered' = Append(delivered, messages[i + 1])
                      /\ sinceCheck' = sinceCheck + 1
                      /\ i' = i + 1
                 ELSE UNCHANGED <<monitor, delivered, sinceCheck, i>>
              /\ pc' = "curses_getch"
    /\ UNCHANGED <<auxVars, program, use_curses, ids_lookup, file_lines, fpos, messages, loaded,
                   replay_speed, now, start_time, readerVars, threadVars, driverVars>>

\* the wall clock advances while the curses loop polls
ClockTick ==
    /\ program = "monitor_file" /\ pc = "curses_getch"
    /\ now < MaxClock
    /\ now' = now + 1
    /\ UNCHANGED <<auxVars, program, pc, use_curses, ids_lookup, monVars, file_lines, fpos, messages,
                   loaded, replay_speed, i, start_time, sinceCheck, readerVars, threadVars,
                   driverVars>>

\* _replay_with_curses after the loop: the completion message, the blocking
\* getch, and finally monitor.close(); a KeyboardInterrupt at the prompt (or
\* an error writing it) goes through the finally and leaves monitor_file,
\* and one that arrives as the finally block is entered (closes = FALSE)
\* leaves the monitor as it is
CursesEnd ==
    /\ program = "monitor_file" /\ pc = "curses_end"
    /\ \E closes \in BOOLEAN, raises \in BOOLEAN :
         /\ monitor' = IF closes THEN close(monitor) ELSE monitor
         /\ pc' = IF raises \/ ~closes THEN "raised" ELSE "done"
    /\ UNCHANGED <<auxVars, program, use_curses, ids_lookup, delivered, fileVars, readerVars,
                   threadVars, driverVars>>

\* except KeyboardInterrupt: print(...) around the console replay loop: the
\* loop is left for the finally with the monitor as `left`; when the print
\* raises, the finally runs and the exception leaves monitor_file
ReplayInterrupted(left) ==
    \E printed \in BOOLEAN :
       IF printed
       THEN monitor' = left /\ pc' = "console_end"
       ELSE monitor' \in AfterFinally(left) /\ pc' = "raised"

\* the pause before message i + 1 in clock ticks:
\* time.sleep(max(0, time_diff / replay_speed))
PauseTicks ==
    IF i > 0
    THEN LET time_diff == RatSub(Ts(messages[i + 1]), Ts(messages[i]))
             pause == Rat(time_diff.n * replay_speed.d, time_diff.d * replay_speed.n)
         IN  IF replay_speed.n > 0 /\ pause.n > 0 THEN Ticks(pause) ELSE 0
    ELSE 0

\* _replay_without_curses: the next message of the for loop and its sleep.
\* With replay_speed 0 the division raises ZeroDivisionError: finally
\* monitor.close(), and the exception leaves monitor_file and main, which
\* catches KeyboardInterrupt only.  A KeyboardInterrupt during the sleep,
\* after any part of the pause, is caught around the loop, which is left.
ConsoleSleep ==
    /\ program = "monitor_file" /\ pc = "console_sleep"
    /\ IF i >= Len(messages)
       THEN /\ pc' = "console_end"
            /\ UNCHANGED <<now, monitor>>
       ELSE IF i > 0 /\ replay_speed.n = 0
       THEN /\ pc' = "raised"
            /\ monitor' \in AfterFinally(monitor)
            /\ UNCHANGED now
       ELSE \E interrupted \in BOOLEAN :
            IF interrupted
            THEN /\ ReplayInterrupted(monitor)
                 /\ \E slept \in 0..PauseTicks : now' = now + slept
            ELSE /\ pc' = "console_deliver"
                 /\ now' = now + PauseTicks
                 /\ UNCHANGED monitor
    /\ UNCHANGED <<auxVars, program, use_curses, ids_lookup, delivered, file_lines, fpos,
                   messages, loaded, replay_speed, i, start_time, sinceCheck, readerVars,
                   threadVars, driverVars>>

\* _replay_without_curses: print_message and update, then on to the stdin poll
\* only when i % 10 == 0.  Besides the normal return:
\*   "interrupt"       a KeyboardInterrupt in print_message or inside update,
\*                     before the history is appended to: caught around the
\*                     loop, which is left;
\*   "interrupt_after" a KeyboardInterrupt once update has stored the frame;
\*   "error"           print_message (standard output closed) or the database
\*                     insert at the head of update raises: nothing is
\*                     stored, finally monitor.close(), and the exception
\*                     leaves monitor_file.
ConsoleDeliver ==
    /\ program = "monitor_file" /\ pc = "console_deliver"
    /\ \E outcome \in {"ok", "interrupt", "interrupt_after", "error"} :
         IF outcome = "interrupt"
         THEN /\ \E left \in InterruptedUpdates(monitor, messages[i + 1].val) :
                   ReplayInterrupted(left)
              /\ UNCHANGED <<delivered, sinceCheck, i>>
         ELSE IF outcome = "error"
         THEN /\ monitor' \in AfterFinally(monitor)
              /\ pc' = "raised"
              /\ UNCHANGED <<delivered, sinceCheck, i>>
         ELSE /\ delivered' = Append(delivered, messages[i + 1])
              /\ sinceCheck' = sinceCheck + 1
              /\ IF outcome = "interrupt_after"
                 THEN /\ ReplayInterrupted(update(monitor, messages[i + 1].val))
                      /\ i' = i
                 ELSE /\ monitor' = update(monitor, messages[i + 1].val)
                      /\ IF i % QuitPollEvery = 0
                         THEN pc' = "console_poll" /\ i' = i
                         ELSE pc' = "console_sleep" /\ i' = i + 1
    /\ UNCHANGED <<auxVars, program, use_curses, ids_lookup, file_lines, fpos, messages, loaded,
                   replay_speed, now, start_time, readerVars, threadVars, driverVars>>

\* _replay_without_curses: select on stdin, read one character, break on
\* 'q'; a KeyboardInterrupt here is caught around the loop and ends it too;
\* select or read raising on a standard input that is closed or None goes
\* through the finally and leaves monitor_file
ConsolePoll ==
    /\ program = "monitor_file" /\ pc = "console_poll"
    /\ sinceCheck' = 0
    /\ \E key \in {"q", "none", "ctrl-c", "select_error"} :
         IF key = "none" THEN pc' = "console_sleep" /\ i' = i + 1 /\ UNCHANGED monitor
         ELSE IF key = "q" THEN pc' = "console_end" /\ i' = i /\ UNCHANGED monitor
         ELSE IF key = "ctrl-c" THEN ReplayInterrupted(monitor) /\ i' = i
         ELSE monitor' \in AfterFinally(monitor) /\ pc' = "raised" /\ i' = i
    /\ UNCHANGED <<auxVars, program, use_curses, ids_lookup, delivered, file_lines, fpos, messages,
                   loaded, replay_speed, now, start_time, readerVars, threadVars,
                   driverVars>>

\* _replay_without_curses: finally monitor.close() and the return; a
\* KeyboardInterrupt that arrives as the finally block is entered leaves
\* the monitor as it is and monitor_file by the exception, and one taken
\* inside close() once the connection is closed (raises) leaves
\* monitor_file by the exception with the monitor closed
ConsoleEnd ==
    /\ program = "monitor_file" /\ pc = "console_end"
    /\ \E closes \in BOOLEAN, raises \in BOOLEAN :
         /\ monitor' = IF closes THEN close(monitor) ELSE monitor
         /\ pc' = IF raises \/ ~closes THEN "raised" ELSE "done"
    /\ UNCHANGED <<auxVars, program, use_curses, ids_lookup, delivered, fileVars, readerVars,
                   threadVars, driverVars>>


(***************************************************************************)
(* CANSerialReader: the read thread.                                       *)
(***************************************************************************)
ThreadIds == 1..MaxThreads
Alive(t) == tpc[t] \notin {"unborn", "done"}
ThreadsStarted == Cardinality({t \in ThreadIds : tpc[t] # "unborn"})

\* where an exception raised inside the try block takes the thread: the
\* except branch prints the error (printed), sleeps 1 s and goes back to the
\* while test.  When that print raises (standard output closed) nothing
\* catches it: _read_thread ends there, with self.running as it is.
OnError(t) ==
    \E printed \in BOOLEAN :
       /\ tpc' = [tpc EXCEPT ![t] = IF printed THEN "errsleep" ELSE "done"]
       /\ tsleep' = [tsleep EXCEPT ![t] = IF printed THEN ErrorPause ELSE @]

\* while self.running
ThreadLoop(t) ==
    /\ tpc[t] = "loop"
    /\ tpc' = [tpc EXCEPT ![t] = IF running THEN "check" ELSE "done"]
    /\ UNCHANGED <<auxVars, program, pc, use_curses, ids_lookup, monVars, fileVars, readerVars,
                   tmsg, tsleep, nread, readLog, dropped, driverVars>>

\* if self.serial and self.serial.in_waiting: bytes are waiting, or none are
\* and the thread sleeps 0.01 s before the next while test, or the property
\* raises (always, once the port is closed)
ThreadCheck(t) ==
    /\ tpc[t] = "check"
    /\ \E outcome \in IF serial = "none" THEN {"empty"}
                      ELSE IF serial = "closed" THEN {"raise"}
                      ELSE IF nread < MaxReads THEN {"waiting", "empty", "raise"}
                      ELSE {"empty", "raise"} :
         IF outcome = "raise" THEN OnError(t)
         ELSE /\ tpc' = [tpc EXCEPT ![t] = IF outcome = "waiting" THEN "readline" ELSE "loop"]
              /\ UNCHANGED tsleep
    /\ UNCHANGED <<auxVars, program, pc, use_curses, ids_lookup, monVars, fileVars, readerVars,
                   tmsg, nread, readLog, dropped, driverVars>>

\* the put without the test of message_queue.full()
MayPut_NoFullTest(queue) == TRUE

\* whether the read thread goes on to put a decoded frame:
\* if decoded and not self.message_queue.full()
MayPut(queue) == Len(queue) < QueueMaxsize

\* line = self.serial.readline().decode(...), parse_line, decode_message and
\* the test of message_queue.full().  readline returns a line of the
\* transport (an empty one when the timeout expires with nothing left to
\* read) or raises; on a port closed by stop() in the meantime either may
\* happen.
ThreadReadline(t) ==
    /\ tpc[t] = "readline"
    /\ \/ \E line \in IF nread < MaxReads THEN SampleSerialLines ELSE {<<>>} :
            LET parsed == parse_line(line) IN
            /\ nread' = IF nread < MaxReads THEN nread + 1 ELSE nread
            /\ IF parsed.status = "ValueError"
               THEN /\ OnError(t)
                    /\ UNCHANGED <<tmsg, readLog, dropped>>
               ELSE IF parsed.status = "NoMatch"
               THEN /\ tpc' = [tpc EXCEPT ![t] = "loop"]
                    /\ UNCHANGED <<tmsg, tsleep, readLog, dropped>>
               ELSE LET decoded == PyObj(Len(readLog) + 1,
                                         decode_message(ids_lookup, parsed.message))
                    IN  /\ readLog' = Append(readLog, decoded)
                        /\ UNCHANGED tsleep
                        /\ IF MayPut(message_queue)
                           THEN /\ tmsg' = [tmsg EXCEPT ![t] = decoded]
                                /\ tpc' = [tpc EXCEPT ![t] = "put"]
                                /\ UNCHANGED dropped
                           ELSE /\ dropped' = dropped \cup {decoded}
                                /\ tpc' = [tpc EXCEPT ![t] = "loop"]
                                /\ UNCHANGED tmsg
       \/ /\ OnError(t)
          /\ UNCHANGED <<tmsg, nread, readLog, dropped>>
    /\ UNCHANGED <<auxVars, program, pc, use_curses, ids_lookup, monVars, fileVars, readerVars,
                   driverVars>>

\* self.message_queue.put(decoded): blocks while the queue is full
ThreadPut(t) ==
    /\ tpc[t] = "put"
    /\ Len(message_queue) < QueueMaxsize
    /\ message_queue' = Append(message_queue, tmsg[t])
    /\ tmsg' = [tmsg EXCEPT ![t] = PyObj(0, <<>>)]
    /\ tpc' = [tpc EXCEPT ![t] = "loop"]
    /\ UNCHANGED <<auxVars, program, pc, use_curses, ids_lookup, monVars, fileVars, serial, running,
                   thread, tsleep, nread, readLog, dropped, driverVars>>

\* the end of time.sleep(1) in the except branch
ThreadErrorWake(t) ==
    /\ tpc[t] = "errsleep"
    /\ tsleep[t] = 0
    /\ tpc' = [tpc EXCEPT ![t] = "loop"]
    /\ UNCHANGED <<auxVars, program, pc, use_curses, ids_lookup, monVars, fileVars, readerVars,
                   tmsg, tsleep, nread, readLog, dropped, driverVars>>

(***************************************************************************)
(* Time.  Seconds are counted only while stop() waits in join; at other    *)
(* times an error pause simply runs out.  A second passes during the join  *)
(* only when every live read thread is blocked: in readline, in its error  *)
(* pause, or in put on a full queue.                                       *)
(***************************************************************************)
Blocked(t) ==
    \/ tpc[t] = "readline"
    \/ tpc[t] = "errsleep" /\ tsleep[t] > 0
    \/ tpc[t] = "put" /\ Len(message_queue) >= QueueMaxsize

PauseElapses(t) ==
    /\ pc # "stop_join"
    /\ tpc[t] = "errsleep"
    /\ tsleep[t] > 0
    /\ tsleep' = [tsleep EXCEPT ![t] = @ - 1]
    /\ UNCHANGED <<auxVars, program, pc, use_curses, ids_lookup, monVars, fileVars, readerVars,
                   tpc, tmsg, nread, readLog, dropped, driverVars>>

JoinSecond ==
    /\ pc = "stop_join"
    /\ joinElapsed < JoinTimeout
    /\ Alive(thread)
    /\ \A t \in ThreadIds : Alive(t) => Blocked(t)
    /\ joinElapsed' = joinElapsed + 1
    /\ tsleep' = [t \in ThreadIds |->
                    IF tpc[t] = "errsleep" /\ tsleep[t] > 0 THEN tsleep[t] - 1 ELSE tsleep[t]]
    /\ UNCHANGED <<auxVars, program, pc, use_curses, ids_lookup, monVars, fileVars, readerVars,
                   tpc, tmsg, nread, readLog, dropped, calls, curCall, prevCall, stopsInRow, ret>>


(***************************************************************************)
(* CANSerialReader: connect, disconnect, start, stop, get_message.         *)
(***************************************************************************)
\* connect(): serial.Serial(...) opens the port (ok) or raises, which leaves
\* self.serial as it was; the except branch prints the error and returns
\* False, and when that print raises (printed = FALSE) connect() raises
connect(ok, printed) ==
    [serial |-> IF ok THEN "open" ELSE serial,
     ret |-> IF ok THEN "True" ELSE IF printed THEN "False" ELSE "raised"]

\* disconnect() without its guard: self.serial.close() on whatever
\* self.serial is, an AttributeError when it is None
disconnect_Unguarded ==
    [serial |-> IF serial = "none" THEN "none" ELSE "closed", raised |-> serial = "none"]

\* disconnect(): if self.serial and self.serial.is_open: self.serial.close()
disconnect ==
    [serial |-> IF serial = "open" THEN "closed" ELSE serial, raised |-> FALSE]

\* start(), with the outcome of the connect it makes when self.serial is
\* None: a connect that returns False makes start() return False, one that
\* raises leaves start() by the exception
start(ok, printed) ==
    LET fresh == CHOOSE t \in ThreadIds :
                    tpc[t] = "unborn" /\ \A u \in ThreadIds : u < t => tpc[u] # "unborn"
    IN  IF serial = "none" /\ ~ok
        THEN /\ ret' = connect(ok, printed).ret
             /\ UNCHANGED <<serial, running, thread, tpc>>
        ELSE /\ serial' = IF serial = "none" THEN connect(ok, printed).serial ELSE serial
             /\ running' = TRUE
             /\ thread' = fresh
             /\ tpc' = [tpc EXCEPT ![fresh] = "loop"]
             /\ ret' = "True"

\* start() left by a KeyboardInterrupt, the port open, once it has
\* `reached`:
\*   "entry"    nothing yet;
\*   "running"  self.running = True, as threading.Thread(...) is called;
\*   "thread"   self.thread is set to a thread that is never started;
\*   "started"  self.thread.start() has returned and the thread runs.
start_Interrupted(reached) ==
    LET fresh == CHOOSE t \in ThreadIds :
                    tpc[t] = "unborn" /\ \A u \in ThreadIds : u < t => tpc[u] # "unborn"
    IN  /\ serial' = serial
        /\ running' = IF reached = "entry" THEN running ELSE TRUE
        /\ thread' = IF reached \in {"thread", "started"} THEN fresh ELSE thread
        /\ tpc' = IF reached = "started" THEN [tpc EXCEPT ![fresh] = "loop"] ELSE tpc
        /\ ret' = "raised"

\* get_message() on a LIFO queue: the newest frame first
get_message_Lifo ==
    IF Len(message_queue) > 0
    THEN [queue |-> SubSeq(message_queue, 1, Len(message_queue) - 1), some |-> TRUE,
          message |-> message_queue[Len(message_queue)]]
    ELSE [queue |-> message_queue, some |-> FALSE, message |-> PyObj(0, <<>>)]

\* get_message() once Queue.get has returned or raised queue.Empty: the head
\* of the queue, or None when it is empty
get_message ==
    IF Len(message_queue) > 0
    THEN [queue |-> Tail(message_queue), some |-> TRUE, message |-> Head(message_queue)]
    ELSE [queue |-> message_queue, some |-> FALSE, message |-> PyObj(0, <<>>)]

\* stop(): self.running = False
StopSignal ==
    /\ pc = "stop"
    /\ running' = FALSE
    /\ signalled' = {t \in ThreadIds : Alive(t)}
    /\ joinElapsed' = 0
    /\ pc' = IF thread # 0 THEN "stop_join" ELSE "stop_disconnect"
    /\ UNCHANGED <<arg, result, ids_file, row, program, use_curses, ids_lookup, monVars, fileVars, serial,
                   message_queue, thread, threadVars, calls, curCall, prevCall, stopsInRow, ret>>

\* stop(): self.thread.join(timeout=2.0) returns when the thread has ended or
\* when the two seconds are over
StopJoin ==
    /\ pc = "stop_join"
    /\ tpc[thread] = "done" \/ joinElapsed >= JoinTimeout
    /\ pc' = "stop_disconnect"
    /\ UNCHANGED <<auxVars, program, use_curses, ids_lookup, monVars, fileVars, readerVars,
                   threadVars, driverVars>>

\* stop(): self.disconnect(), and the return to the caller; under
\* monitor_serial an exception of disconnect(), or a KeyboardInterrupt
\* once the port is closed (interrupted), leaves it as the exception
StopDisconnect ==
    /\ pc = "stop_disconnect"
    /\ serial' = disconnect.serial
    /\ \E interrupted \in {FALSE} \cup {program = "monitor_serial"} :
         /\ ret' = IF disconnect.raised \/ interrupted THEN "raised" ELSE "None"
         /\ pc' = IF program # "monitor_serial" THEN "idle"
                  ELSE IF disconnect.raised \/ interrupted THEN "raised" ELSE "done"
    /\ curCall' = "none"
    /\ prevCall' = "stop"
    /\ stopsInRow' = stopsInRow + 1
    /\ UNCHANGED <<auxVars, program, use_curses, ids_lookup, monVars, fileVars, running,
                   message_queue, thread, threadVars, joinElapsed, calls>>

(***************************************************************************)
(* monitor_serial and its two consumer loops.                              *)
(***************************************************************************)
\* monitor_serial up to reader.connect(): a connect that succeeds leads on
\* to reader.start(); after one that returns False the failure is printed
\* (told) and monitor_serial returns.  An exception leaves monitor_serial
\* here when connect() raises, when the print of the failure raises, and
\* when a KeyboardInterrupt arrives or CANMessageParser() raises before
\* the port is open.  A KeyboardInterrupt inside connect() once the port is
\* open (ok and not told) leaves monitor_serial with the port open.
MonitorSerialConnect ==
    /\ program = "monitor_serial" /\ pc = "connect"
    /\ \E ok \in BOOLEAN, printed \in BOOLEAN, told \in BOOLEAN :
         /\ serial' = connect(ok, printed).serial
         /\ ret' = IF ok /\ ~told THEN "raised" ELSE connect(ok, printed).ret
         /\ pc' = IF ok /\ told THEN "start"
                  ELSE IF ~ok /\ connect(ok, printed).ret = "False" /\ told THEN "done"
                  ELSE "raised"
    /\ prevCall' = "connect"
    /\ stopsInRow' = 0
    /\ UNCHANGED <<auxVars, program, use_curses, ids_lookup, monVars, fileVars, running,
                   message_queue, thread, threadVars, joinElapsed, calls, curCall>>

\* the print of the connection and reader.start(): the read thread runs
\* from here on.  When the print raises, or a KeyboardInterrupt arrives
\* before start() ("print"), monitor_serial is left with the port open and
\* no thread; a KeyboardInterrupt inside start() leaves monitor_serial with
\* what start() has done by then.
MonitorSerialStart ==
    /\ program = "monitor_serial" /\ pc = "start"
    /\ \E outcome \in {"ok", "print", "entry", "running", "thread", "started"} :
         IF outcome = "print"
         THEN /\ pc' = "raised"
              /\ UNCHANGED <<serial, running, thread, tpc, ret, prevCall, stopsInRow>>
         ELSE /\ IF outcome = "ok"
                 THEN start(TRUE, TRUE) /\ pc' = "setup"
                 ELSE start_Interrupted(outcome) /\ pc' = "raised"
              /\ prevCall' = "start"
              /\ stopsInRow' = 0
    /\ UNCHANGED <<auxVars, program, use_curses, ids_lookup, monVars, fileVars, message_queue,
                   tmsg, tsleep, nread, readLog, dropped, joinElapsed, calls, curCall>>

\* the head of _monitor_with_curses or _monitor_without_curses; an
\* exception here leaves monitor_serial before the loop's try block and
\* before reader.stop()
MonitorSerialSetup ==
    /\ program = "monitor_serial" /\ pc = "setup"
    /\ \E db_path \in SampleDbPaths, opens \in BOOLEAN, colors \in BOOLEAN,
          entered \in BOOLEAN :
         LET setup == LoopSetup(use_curses, db_path, opens, colors, entered)
         IN  /\ monitor' = setup.monitor
             /\ pc' = IF setup.raised THEN "raised"
                      ELSE IF use_curses THEN "curses_getch" ELSE "console_get"
    /\ UNCHANGED <<auxVars, program, use_curses, ids_lookup, delivered, fileVars, readerVars,
                   threadVars, driverVars>>

\* the consumer loop is left with its monitor as `left`: finally
\* monitor.close(); after a normal return monitor_serial calls
\* reader.stop(), after an exception it does not.  A KeyboardInterrupt that
\* arrives as the finally block is entered (closes = FALSE) leaves the
\* monitor as it is and monitor_serial by the exception; one taken inside
\* close() once the connection is closed, or before reader.stop() is
\* entered (raises), leaves monitor_serial with the monitor closed.
LeaveConsumer(normally, left) ==
    \E closes \in BOOLEAN, raises \in BOOLEAN :
       LET returns == normally /\ closes /\ ~raises IN
       /\ monitor' = IF closes THEN close(left) ELSE left
       /\ pc' = IF returns THEN "stop" ELSE "raised"
       /\ curCall' = IF returns THEN "stop" ELSE curCall

\* except KeyboardInterrupt: print(...) around the console consumer loop;
\* when the print raises, the exception leaves monitor_serial
ConsumerInterrupted(left) == \E printed \in BOOLEAN : LeaveConsumer(printed, left)

\* _monitor_with_curses: screen.getch(); 'q' breaks; whatever getch raises,
\* a KeyboardInterrupt included, is swallowed by the bare except around it
SerialCursesGetch ==
    /\ program = "monitor_serial" /\ pc = "curses_getch"
    /\ \E key \in {"q", "none", "ctrl-c"} :
         IF key = "q"
         THEN LeaveConsumer(TRUE, monitor)
         ELSE pc' = "curses_get" /\ UNCHANGED <<monitor, curCall>>
    /\ UNCHANGED <<auxVars, program, use_curses, ids_lookup, delivered, fileVars, readerVars,
                   threadVars, joinElapsed, calls, prevCall, stopsInRow, ret>>

\* _monitor_with_curses: reader.get_message(block=False), then
\* monitor.update(message) or time.sleep(0.01).  Nothing catches what is
\* raised here; the finally closes the monitor and the exception goes on:
\*   "interrupt"     a KeyboardInterrupt before get_message has taken a
\*                   frame (the loop spends its idle time in the sleep);
\*   "in_update"     get_message has returned a frame, and a
\*                   KeyboardInterrupt arrives before update is entered or
\*                   inside it, its for loop part done and the history not
\*                   appended to, or the database insert at the head of
\*                   update raises: the frame is off the queue and not
\*                   delivered;
\*   "display_error" an error of the screen refresh at the end of update (or
\*                   a KeyboardInterrupt there): the frame is stored.
SerialCursesGet ==
    /\ program = "monitor_serial" /\ pc = "curses_get"
    /\ \E outcome \in {"ok", "interrupt"}
                      \cup (IF get_message.some
                            THEN {"in_update", "display_error"} ELSE {}) :
         IF outcome = "interrupt"
         THEN /\ LeaveConsumer(FALSE, monitor)
              /\ UNCHANGED <<message_queue, delivered>>
         ELSE IF outcome = "in_update"
         THEN /\ message_queue' = get_message.queue
              /\ \E left \in InterruptedUpdates(monitor, get_message.message.val) :
                   LeaveConsumer(FALSE, left)
              /\ UNCHANGED delivered
         ELSE /\ message_queue' = get_message.queue
              /\ delivered' = IF get_message.some
                              THEN Append(delivered, get_message.message) ELSE delivered
              /\ IF outcome = "display_error"
                 THEN LeaveConsumer(FALSE, update(monitor, get_message.message.val))
                 ELSE /\ monitor' = IF get_message.some
                                    THEN update(monitor, get_message.message.val)
                                    ELSE monitor
                      /\ pc' = "curses_getch"
                      /\ UNCHANGED curCall
    /\ UNCHANGED <<auxVars, program, use_curses, ids_lookup, fileVars, serial, running, thread,
                   threadVars, joinElapsed, calls, prevCall, stopsInRow, ret>>

\* _monitor_without_curses: reader.get_message(timeout=0.1), then
\* print_message and update.  A KeyboardInterrupt is caught around the
\* loop, which is left; any other exception goes through the finally and
\* leaves monitor_serial:
\*   "interrupt"  a KeyboardInterrupt during the wait in get_message;
\*   "in_update"  get_message has returned a frame, and a KeyboardInterrupt
\*                arrives in print_message or inside update before the
\*                history is appended to: the frame is off the queue and
\*                not delivered;
\*   "error"      print_message (standard output closed) or the database
\*                insert at the head of update raises: the frame is off
\*                the queue and nothing is stored.
SerialConsoleGet ==
    /\ program = "monitor_serial" /\ pc = "console_get"
    /\ \E outcome \in {"ok", "interrupt"}
                      \cup (IF get_message.some THEN {"in_update", "error"} ELSE {}) :
         IF outcome = "interrupt"
         THEN /\ ConsumerInterrupted(monitor)
              /\ UNCHANGED <<message_queue, delivered>>
         ELSE IF outcome = "in_update"
         THEN /\ message_queue' = get_message.queue
              /\ \E left \in InterruptedUpdates(monitor, get_message.message.val) :
                   ConsumerInterrupted(left)
              /\ UNCHANGED delivered
         ELSE IF outcome = "error"
         THEN /\ message_queue' = get_message.queue
              /\ LeaveConsumer(FALSE, monitor)
              /\ UNCHANGED delivered
         ELSE /\ message_queue' = get_message.queue
              /\ IF get_message.some
                 THEN /\ monitor' = update(monitor, get_message.message.val)
                      /\ delivered' = Append(delivered, get_message.message)
                 ELSE UNCHANGED <<monitor, delivered>>
              /\ pc' = "console_poll"
              /\ UNCHANGED curCall
    /\ UNCHANGED <<auxVars, program, use_curses, ids_lookup, fileVars, serial, running, thread,
                   threadVars, joinElapsed, calls, prevCall, stopsInRow, ret>>

\* _monitor_without_curses: the stdin poll; 'q' breaks, a KeyboardInterrupt
\* is caught around the loop, and select or read raising on a standard
\* input that is closed or None goes through the finally and leaves
\* monitor_serial
SerialConsolePoll ==
    /\ program = "monitor_serial" /\ pc = "console_poll"
    /\ \E key \in {"q", "none", "ctrl-c", "select_error"} :
         IF key = "none"
         THEN pc' = "console_get" /\ UNCHANGED <<monitor, curCall>>
         ELSE IF key = "ctrl-c" THEN ConsumerInterrupted(monitor)
         ELSE LeaveConsumer(key = "q", monitor)
    /\ UNCHANGED <<auxVars, program, use_curses, ids_lookup, delivered, fileVars, readerVars,
                   threadVars, joinElapsed, calls, prevCall, stopsInRow, ret>>

\* a KeyboardInterrupt inside reader.stop(), called by monitor_serial: at
\* its entry (running still True), while it waits in thread.join, or before
\* disconnect() has closed the port; stop() is left where it is and the
\* exception leaves monitor_serial
StopInterrupted ==
    /\ program = "monitor_serial" /\ pc \in {"stop", "stop_join", "stop_disconnect"}
    /\ pc' = "raised"
    /\ curCall' = "none"
    /\ UNCHANGED <<auxVars, program, use_curses, ids_lookup, monVars, fileVars, readerVars,
                   threadVars, joinElapsed, calls, prevCall, stopsInRow, ret>>

(***************************************************************************)
(* A driver that calls the methods of one CANSerialReader in any order.    *)
(***************************************************************************)
ApiConnect ==
    /\ program = "reader_api" /\ pc = "idle" /\ calls < MaxCalls
    /\ \E ok \in BOOLEAN, printed \in BOOLEAN :
         /\ serial' = connect(ok, printed).serial
         /\ ret' = connect(ok, printed).ret
    /\ calls' = calls + 1
    /\ prevCall' = "connect"
    /\ stopsInRow' = 0
    /\ UNCHANGED <<auxVars, program, pc, use_curses, ids_lookup, monVars, fileVars, running,
                   message_queue, thread, threadVars, joinElapsed, curCall>>

\* reader.disconnect(), called on its own
ApiDisconnect ==
    /\ program = "reader_api" /\ pc = "idle" /\ calls < MaxCalls
    /\ serial' = disconnect.serial
    /\ ret' = IF disconnect.raised THEN "raised" ELSE "None"
    /\ calls' = calls + 1
    /\ prevCall' = "disconnect"
    /\ stopsInRow' = 0
    /\ UNCHANGED <<auxVars, program, pc, use_curses, ids_lookup, monVars, fileVars, running,
                   message_queue, thread, threadVars, joinElapsed, curCall>>

ApiStart ==
    /\ program = "reader_api" /\ pc = "idle" /\ calls < MaxCalls
    /\ \E t \in ThreadIds : tpc[t] = "unborn"
    /\ \E ok \in BOOLEAN, printed \in BOOLEAN : start(ok, printed)
    /\ calls' = calls + 1
    /\ prevCall' = "start"
    /\ stopsInRow' = 0
    /\ UNCHANGED <<auxVars, program, pc, use_curses, ids_lookup, monVars, fileVars, message_queue,
                   tmsg, tsleep, nread, readLog, dropped, joinElapsed, curCall>>

ApiStop ==
    /\ program = "reader_api" /\ pc = "idle" /\ calls < MaxCalls
    /\ pc' = "stop"
    /\ curCall' = "stop"
    /\ calls' = calls + 1
    /\ UNCHANGED <<auxVars, program, use_curses, ids_lookup, monVars, fileVars, readerVars,
                   threadVars, joinElapsed, prevCall, stopsInRow, ret>>

\* reader.get_message(block, timeout): with block=False or a timeout the
\* call returns None on an empty queue; with the defaults (block=True,
\* timeout=None) it waits in Queue.get until a frame is there
ApiGetMessage ==
    /\ program = "reader_api" /\ pc = "idle" /\ calls < MaxCalls
    /\ calls' = calls + 1
    /\ \E waits \in BOOLEAN :
         IF waits /\ ~get_message.some
         THEN /\ pc' = "get_wait"
              /\ curCall' = "get_message"
              /\ UNCHANGED <<message_queue, delivered, ret, prevCall, stopsInRow>>
         ELSE /\ message_queue' = get_message.queue
              /\ delivered' = IF get_message.some THEN Append(delivered, get_message.message)
                              ELSE delivered
              /\ ret' = IF get_message.some THEN "message" ELSE "None"
              /\ prevCall' = "get_message"
              /\ stopsInRow' = 0
              /\ UNCHANGED <<pc, curCall>>
    /\ UNCHANGED <<auxVars, program, use_curses, ids_lookup, monitor, fileVars, serial, running,
                   thread, threadVars, joinElapsed>>

\* the waiting get_message returns as soon as the queue holds a frame
ApiGetArrives ==
    /\ program = "reader_api" /\ pc = "get_wait"
    /\ get_message.some
    /\ message_queue' = get_message.queue
    /\ delivered' = Append(delivered, get_message.message)
    /\ ret' = "message"
    /\ pc' = "idle"
    /\ curCall' = "none"
    /\ prevCall' = "get_message"
    /\ stopsInRow' = 0
    /\ UNCHANGED <<auxVars, program, use_curses, ids_lookup, monitor, fileVars, serial, running,
                   thread, threadVars, joinElapsed, calls>>

(***************************************************************************)
(* Specifications.  Spec: the live path, under monitor_serial or under the *)
(* driver.  SpecReplay: monitor_file.                                      *)
(***************************************************************************)
InitShared ==
    /\ monitor = NoMonitor
    /\ delivered = <<>>
    /\ fpos = 0 /\ messages = <<>> /\ loaded = <<>>
    /\ i = 0 /\ now = 0 /\ start_time = 0 /\ sinceCheck = 0
    /\ serial = "none" /\ running = FALSE /\ message_queue = <<>> /\ thread = 0
    /\ tpc = [t \in ThreadIds |-> "unborn"]
    /\ tmsg = [t \in ThreadIds |-> PyObj(0, <<>>)]
    /\ tsleep = [t \in ThreadIds |-> 0]
    /\ nread = 0 /\ readLog = <<>> /\ dropped = {}
    /\ joinElapsed = 0 /\ calls = 0 /\ curCall = "none" /\ prevCall = "none"
    /\ stopsInRow = 0
    /\ ret = "None"
    /\ signalled = {}

\* the parser as CANMessageParser() left it, its catalog loaded; it is not
\* used on its own
NoAux ==
    /\ ids_lookup = SampleCatalog
    /\ arg = <<>> /\ result = <<>> /\ ids_file = <<>> /\ row = 0

Init ==
    /\ InitShared /\ NoAux
    /\ \/ program = "monitor_serial" /\ pc = "connect" /\ use_curses \in BOOLEAN
       \/ program = "reader_api" /\ pc = "idle" /\ use_curses = TRUE
    /\ file_lines = <<>> /\ replay_speed = Rat(1, 1)

ThreadNext ==
    \E t \in ThreadIds :
       \/ ThreadLoop(t) \/ ThreadCheck(t) \/ ThreadReadline(t)
       \/ ThreadPut(t) \/ ThreadErrorWake(t) \/ PauseElapses(t)

Next ==
    \/ ThreadNext
    \/ JoinSecond
    \/ StopSignal \/ StopJoin \/ StopDisconnect
    \/ StopInterrupted
    \/ MonitorSerialConnect \/ MonitorSerialStart \/ MonitorSerialSetup
    \/ SerialCursesGetch \/ SerialCursesGet \/ SerialConsoleGet \/ SerialConsolePoll
    \/ ApiConnect \/ ApiDisconnect \/ ApiStart \/ ApiStop \/ ApiGetMessage \/ ApiGetArrives

Spec == Init /\ [][Next]_vars

InitReplay ==
    /\ InitShared /\ NoAux
    /\ program = "monitor_file" /\ pc = "read_all"
    /\ use_curses \in BOOLEAN
    /\ file_lines \in SeqsUpTo(SampleFileLines, MaxLines)
    /\ replay_speed \in SampleSpeeds

NextReplay ==
    \/ ReadAllLine \/ ReadAllInterrupted \/ ReadAllEnd \/ MonitorFileStart
    \/ CursesGetch \/ CursesPace \/ ClockTick \/ CursesEnd
    \/ ConsoleSleep \/ ConsoleDeliver \/ ConsolePoll \/ ConsoleEnd

SpecReplay == InitReplay /\ [][NextReplay]_vars

\* the steps of monitor_file once read_all has returned; at each position
\* exactly one is enabled
ReplayStep ==
    \/ MonitorFileStart
    \/ CursesGetch \/ CursesPace \/ CursesEnd
    \/ ConsoleSleep \/ ConsoleDeliver \/ ConsolePoll \/ ConsoleEnd

\* the replay with a scheduler that keeps the program running and a wall
\* clock that keeps advancing while the curses loop polls
SpecReplayFair ==
    /\ InitReplay /\ [][NextReplay]_vars
    /\ WF_vars(ReplayStep)
    /\ SF_vars(ClockTick)

(***************************************************************************)
(* SpecCatalog: CANMessageParser._load_ids on an identifier file, then a   *)
(* decode with the catalog it built.  A row is the list of fields          *)
(* csv.reader(f, delimiter=';') yields for a line: the identifier field as *)
(* text, the other fields as opaque strings.                               *)
(***************************************************************************)
\* rows an identifier file holds after its header
MaxRows == 3

\* the characters str.lower() changes (A-Z and the accented capitals) and
\* what it makes of them
UpperAlpha == <<"A","B","C","D","E","F","G","H","I","J","K","L","M","N","O","P","Q",
                "R","S","T","U","V","W","X","Y","Z","À","Á","Â","Ã","Ä","Å","Æ","Ç",
                "È","É","Ê","Ë","Ì","Í","Î","Ï","Ð","Ñ","Ò","Ó","Ô","Õ","Ö","Ø","Ù",
                "Ú","Û","Ü","Ý","Þ">>
LowerAlpha == <<"a","b","c","d","e","f","g","h","i","j","k","l","m","n","o","p","q",
                "r","s","t","u","v","w","x","y","z","à","á","â","ã","ä","å","æ","ç",
                "è","é","ê","ë","ì","í","î","ï","ð","ñ","ò","ó","ô","õ","ö","ø","ù",
                "ú","û","ü","ý","þ">>
\* str.lower()
LowerChar(c) ==
    IF \E k \in 1..Len(UpperAlpha) : UpperAlpha[k] = c
    THEN LowerAlpha[CHOOSE k \in 1..Len(UpperAlpha) : UpperAlpha[k] = c]
    ELSE c
Lower(s) == [k \in 1..Len(s) |-> LowerChar(s[k])]

RowHeader == << <<"i","d">>, "source", "frequency", "data_bytes" >>
RowEcm == << <<"0","x","1","8","0">>, "ECM", "100Hz", "8" >>
RowGear == << <<" ","0","4","2","1"," ">>, "TCM", "10Hz", "1", "gear position" >>
RowShort == << <<"0","x","0","0","2">>, "STRG" >>
RowBadId == << <<"0","x","1","G","0">>, "ECM", "100Hz", "8" >>
SampleRows == {RowEcm, RowGear, RowShort, RowBadId}

\* except Exception: print(...) in _load_ids, and the return of the catalog;
\* when the print raises (standard output closed) the exception leaves
\* _load_ids and CANMessageParser.__init__
LoadIdsWarned == {"loaded", "raised"}

\* _load_ids: open(ids_file) and next(reader), the header; a file that does
\* not open, or has no line at all, lands in the except branch
LoadIdsOpen ==
    /\ program = "load_ids" /\ pc = "open"
    /\ IF ids_file.opens /\ Len(ids_file.rows) > 0
       THEN pc' = "rows" /\ row' = 1
       ELSE pc' \in LoadIdsWarned /\ row' = row
    /\ UNCHANGED <<arg, result, ids_file, signalled, use_curses, program, ids_lookup, monVars,
                   fileVars, readerVars, threadVars, driverVars>>

\* _load_ids: one row of the for loop; int(can_id_hex, 16) raising ValueError
\* lands in the except branch, outside the loop
LoadIdsRow ==
    /\ program = "load_ids" /\ pc = "rows"
    /\ row < Len(ids_file.rows)
    /\ row' = row + 1
    /\ LET r == ids_file.rows[row + 1] IN
       IF Len(r) >= 4
       THEN LET can_id_hex == Strip(Lower(r[1]))
                can_id_int == IntBase16(can_id_hex)
            IN  IF can_id_int.ok
                THEN /\ ids_lookup' =
                          (can_id_int.val :>
                              [source |-> r[2], frequency |-> r[3], data_bytes |-> r[4]])
                          @@ ids_lookup
                     /\ pc' = pc
                ELSE /\ pc' \in LoadIdsWarned
                     /\ UNCHANGED ids_lookup
       ELSE UNCHANGED <<pc, ids_lookup>>
    /\ UNCHANGED <<arg, result, ids_file, signalled, use_curses, program, monVars,
                   fileVars, readerVars, threadVars, driverVars>>

\* _load_ids: the loop is over; the count is printed and ids_lookup
\* returned.  When that print raises, the except branch catches it and
\* prints in its turn.
LoadIdsEnd ==
    /\ program = "load_ids" /\ pc = "rows"
    /\ row = Len(ids_file.rows)
    /\ pc' \in LoadIdsWarned
    /\ UNCHANGED <<auxVars, use_curses, program, ids_lookup, monVars,
                   fileVars, readerVars, threadVars, driverVars>>

\* parse_line and decode_message of one line, with the catalog as loaded
CatalogDecode ==
    /\ program = "load_ids" /\ pc = "loaded"
    /\ \E line \in {LineRpm, LineGear, LineSteer} :
         /\ arg' = line
         /\ result' = decode_message(ids_lookup, parse_line(line).message)
    /\ pc' = "done"
    /\ UNCHANGED <<ids_file, row, signalled, use_curses, program, ids_lookup, monVars,
                   fileVars, readerVars, threadVars, driverVars>>

InitCatalog ==
    /\ InitShared
    /\ program = "load_ids" /\ pc = "open" /\ use_curses = TRUE
    /\ file_lines = <<>> /\ replay_speed = Rat(1, 1)
    /\ ids_lookup = <<>>
    /\ arg = <<>> /\ result = <<>> /\ row = 0
    /\ \E opens \in BOOLEAN :
         \E rows \in {<<>>} \cup {<<RowHeader>> \o body : body \in SeqsUpTo(SampleRows, MaxRows)} :
            ids_file = [opens |-> opens, rows |-> rows]

NextCatalog == LoadIdsOpen \/ LoadIdsRow \/ LoadIdsEnd \/ CatalogDecode

SpecCatalog == InitCatalog /\ [][NextCatalog]_vars

(***************************************************************************)
(* SpecDecode: parse_line and decode_message on their own, on frames and   *)
(* lines drawn from the families below.                                    *)
(***************************************************************************)
\* the longest payload of a frame
MaxPayload == 8

\* the identifiers decode_message has a rule for, and one it has none for
RuleIds == {384, 505, 640, 2, 1361, 534, 1057}
SampleIds == RuleIds \cup {291}
SampleBytes == {0, 2, 16, 24, 100, 108, 128, 153, 255}
Bytes == 0..255

\* a message as parse_line returns it
SampleFrame(can_id, data) ==
    [timestamp |-> Rat(1000250, 1000),
     can_id |-> can_id,
     can_id_hex |-> CanIdHex(can_id),
     msg_type |-> <<"s","t","d">>,
     data |-> data,
     raw |-> <<"r","a","w">>]

\* byte tokens as a log line spells them, with the value each stands for
SampleByteTokens ==
    {[text |-> <<"0","7">>, value |-> 7],
     [text |-> <<"D","0">>, value |-> 208],
     [text |-> <<"0","0">>, value |-> 0],
     [text |-> <<"8","0">>, value |-> 128],
     [text |-> <<"f","f">>, value |-> 255],
     [text |-> <<"7","F">>, value |-> 127],
     [text |-> <<"1">>, value |-> 1]}

\* a line of identifier 0x180 with the payload b0 b1 00 00 00 b5 00 00
Line180(b0, b1, b5) ==
    <<"1","0","0","0",".","2","5","0"," ","R","X",":"," ",
      "[","0","1","8","0","]","(","e","x","t",")"," ">>
    \o b0.text \o <<" ">> \o b1.text
    \o <<" ","0","0"," ","0","0"," ","0","0"," ">> \o b5.text
    \o <<" ","0","0"," ","0","0","\n">>

SampleDecodeFrames ==
    {SampleFrame(id, [k \in 1..n |-> b]) :
        id \in SampleIds, n \in 0..MaxPayload, b \in SampleBytes}
    \cup {SampleFrame(2, <<b0, b1>>) : b0 \in {0, 1, 100, 255}, b1 \in Bytes}
    \cup {SampleFrame(1361, <<90, 0, 0, 0, b4, b5>>) : b4 \in Bytes, b5 \in {0, 1, 2, 3, 255}}
    \cup {SampleFrame(id, <<v>>) : id \in {534, 1057}, v \in Bytes}

SampleDecodeLines ==
    {Line180(b0, b1, b5) : b0, b1, b5 \in SampleByteTokens}
    \cup {LineRpm, LineSteer, LineGear, LineNoMatch, LineBadId, LineBadByte}

\* message = self.parser.parse_line(line)
ParseStep ==
    /\ program = "decode" /\ pc = "parse"
    /\ result' = parse_line(arg)
    /\ pc' = IF parse_line(arg).status = "Frame" THEN "decode" ELSE "done"
    /\ UNCHANGED <<arg, ids_file, row, signalled, use_curses, program, ids_lookup, monVars,
                   fileVars, readerVars, threadVars, driverVars>>

\* decoded = self.parser.decode_message(message)
DecodeStep ==
    /\ program = "decode" /\ pc = "decode"
    /\ result' = [status |-> "Decoded", message |-> result.message,
                  decoded |-> decode_message(ids_lookup, result.message)]
    /\ pc' = "done"
    /\ UNCHANGED <<arg, ids_file, row, signalled, use_curses, program, ids_lookup, monVars,
                   fileVars, readerVars, threadVars, driverVars>>

InitDecode ==
    /\ InitShared
    /\ program = "decode" /\ use_curses = TRUE
    /\ file_lines = <<>> /\ replay_speed = Rat(1, 1)
    /\ ids_lookup = SampleCatalog /\ ids_file = <<>> /\ row = 0
    /\ \/ /\ pc = "parse"
          /\ arg \in SampleDecodeLines
          /\ result = [status |-> "None"]
       \/ /\ pc = "decode"
          /\ arg = <<>>
          /\ \E frame \in SampleDecodeFrames :
                result = [status |-> "Frame", message |-> frame]

NextDecode == ParseStep \/ DecodeStep

SpecDecode == InitDecode /\ [][NextDecode]_vars

(***************************************************************************)
(* SpecMain: main() with --file, for any --replay-speed argparse accepts.  *)
(***************************************************************************)
\* values of --replay-speed (type=float): any number, positive or not
SampleArgSpeeds == SampleSpeeds \cup {Rat(0, 1), Rat(0 - 1, 1)}

\* main(): parse_args, then monitor_file(args.file, not args.console,
\* db_path, args.replay_speed).  With --export given as well, main calls
\* export_to_csv instead and returns (or export_to_csv raises): no replay
\* loop runs.
MainMonitorFile ==
    /\ program = "main" /\ pc = "main"
    /\ \E export \in BOOLEAN, exported \in BOOLEAN :
         IF export
         THEN program' = program /\ pc' = IF exported THEN "done" ELSE "raised"
         ELSE program' = "monitor_file" /\ pc' = "read_all"
    /\ UNCHANGED <<auxVars, use_curses, ids_lookup, monVars, fileVars, readerVars,
                   threadVars, driverVars>>

InitMain ==
    /\ InitShared /\ NoAux
    /\ program = "main" /\ pc = "main"
    /\ use_curses \in BOOLEAN
    /\ file_lines \in SeqsUpTo(SampleFileLines, MaxLines)
    /\ replay_speed \in SampleArgSpeeds

NextMain == MainMonitorFile \/ NextReplay

SpecMain == InitMain /\ [][NextMain]_vars

(***************************************************************************)
(* SpecMonitor: one CANMonitor on its own, created with a history length   *)
(* and handed decoded frames one update call after another.                *)
(***************************************************************************)
MaxUpdates == 4
MaxHistory == 2

\* history_length values given to CANMonitor(...)
SampleHistoryLengths == 0..MaxHistory

\* identifier and payload of the frames handed to update: two payloads of
\* 0x180, one too short to carry a signal, steering, cruise with a zero
\* setpoint byte, gear, and an identifier without a rule
SamplePayloads ==
    {<<384, <<7, 208, 0, 0, 0, 128, 0, 0>>>>,
     <<384, <<16, 0, 0, 0, 0, 255, 0, 0>>>>,
     <<384, <<7>>>>,
     <<2, <<100, 0>>>>,
     <<1361, <<90, 0, 0, 0, 0, 1>>>>,
     <<1057, <<128>>>>,
     <<291, <<1, 2>>>>}

\* the decoded frame of the k-th line received: the timestamps of a stream
\* grow with the lines
MonitorFrame(k, payload) ==
    decode_message(SampleCatalog,
                   [SampleFrame(payload[1], payload[2]) EXCEPT !.timestamp = Rat(k, 1)])

\* monitor = CANMonitor(None, db_path, history_length)
MonitorCreate ==
    /\ program = "monitor_api" /\ pc = "new"
    /\ \E db_path \in SampleDbPaths, history_length \in SampleHistoryLengths,
          opens \in BOOLEAN :
         LET made == NewMonitor(FALSE, db_path, history_length, opens, TRUE)
         IN  IF made.raised
             THEN pc' = "raised" /\ UNCHANGED monitor
             ELSE pc' = "update" /\ monitor' = made.self
    /\ UNCHANGED <<auxVars, program, use_curses, ids_lookup, delivered, fileVars, readerVars,
                   threadVars, driverVars>>

\* monitor.update(message); with a database the insert at the head of
\* update can raise (stored = FALSE), before anything of the monitor is
\* changed
MonitorUpdate ==
    /\ program = "monitor_api" /\ pc = "update" /\ calls < MaxUpdates
    /\ \E payload \in SamplePayloads, stored \in BOOLEAN :
         LET message == MonitorFrame(calls + 1, payload)
         IN  IF monitor.db = "open" /\ ~stored
             THEN UNCHANGED <<monitor, delivered>>
             ELSE /\ monitor' = update(monitor, message)
                  /\ delivered' = Append(delivered, PyObj(calls + 1, message))
    /\ calls' = calls + 1
    /\ UNCHANGED <<auxVars, program, pc, use_curses, ids_lookup, fileVars, readerVars,
                   threadVars, joinElapsed, curCall, prevCall, stopsInRow, ret>>

\* monitor.close()
MonitorClose ==
    /\ program = "monitor_api" /\ pc = "update"
    /\ monitor' = close(monitor)
    /\ pc' = "closed"
    /\ UNCHANGED <<auxVars, program, use_curses, ids_lookup, delivered, fileVars, readerVars,
                   threadVars, driverVars>>

InitMonitor ==
    /\ InitShared /\ NoAux
    /\ program = "monitor_api" /\ pc = "new" /\ use_curses = FALSE
    /\ file_lines = <<>> /\ replay_speed = Rat(1, 1)

NextMonitor == MonitorCreate \/ MonitorUpdate \/ MonitorClose

SpecMonitor == InitMonitor /\ [][NextMonitor]_vars

(***************************************************************************)
(* Properties of the live path, checked under Spec.                        *)
(***************************************************************************)
Range(seq) == {seq[k] : k \in 1..Len(seq)}

\* a reader whose start() has spawned its read thread at most once
SingleProducer == ThreadsStarted <= 1

\* C1: the message queue never holds more than its capacity, and the read
\* thread of a reader never waits in put: it reaches put only with room in
\* the queue, and a frame decoded while the queue is full is dropped (it is
\* never queued, held for a later put, or delivered).
C1_QueueBoundedNeverBlocks ==
    /\ Len(message_queue) <= QueueMaxsize
    /\ SingleProducer =>
         /\ \A t \in ThreadIds : tpc[t] = "put" => Len(message_queue) < QueueMaxsize
         /\ \A o \in dropped :
              /\ o \notin Range(message_queue)
              /\ o \notin Range(delivered)
              /\ \A t \in ThreadIds : tmsg[t] # o

\* the queue is full, a frame has been dropped, and the thread is in the
\* readline after the drop
C1_Witness ==
    /\ SingleProducer
    /\ Len(message_queue) = QueueMaxsize
    /\ dropped # {}
    /\ \E t \in ThreadIds : tpc[t] = "readline" /\ running

\* C2: the frames get_message has returned are frames the read thread read,
\* in the order it read them, each at most once.
C2_DeliveredSubsequenceOfRead ==
    SingleProducer =>
      /\ \A k \in 1..Len(delivered) :
           /\ delivered[k].obj \in 1..Len(readLog)
           /\ readLog[delivered[k].obj] = delivered[k]
      /\ \A j, k \in 1..Len(delivered) : j < k => delivered[j].obj < delivered[k].obj

\* three frames delivered, with a frame read in between that was dropped
C2_Witness ==
    /\ SingleProducer
    /\ Len(delivered) >= 3
    /\ \E k \in 1..(Len(delivered) - 1) : \E o \in dropped :
         delivered[k].obj < o.obj /\ o.obj < delivered[k + 1].obj

\* C3: whenever disconnect() has closed the transport, the read thread has
\* left its loop.
C3_ClosedOnlyAfterThreadLeft ==
    (SingleProducer /\ serial = "closed") => \A t \in ThreadIds : ~Alive(t)

\* C4: a stop() that follows a stop() raises nothing and changes nothing:
\* at each of its steps running is and stays False, the transport is not
\* open and stays as it is, and the queue keeps its contents.
C4_SecondStopIdempotent ==
    [][(stopsInRow >= 1 /\ pc \in {"stop", "stop_join", "stop_disconnect"} /\ pc' # pc) =>
          /\ ~running /\ ~running'
          /\ serial # "open" /\ serial' = serial
          /\ message_queue' = message_queue
          /\ thread' = thread
          /\ ret' # "raised"]_vars

\* two stop() calls in a row have returned on a reader that was started and
\* has frames in its queue
C4_Witness ==
    /\ stopsInRow >= 2
    /\ thread # 0
    /\ serial = "closed"
    /\ message_queue # <<>>
    /\ ret = "None"

\* C7: when monitor_serial has returned after the user's quit, every frame
\* the read thread read has been delivered to the monitor or was dropped on
\* a full queue.
C7_NoQueuedFrameLostOnQuit ==
    (program = "monitor_serial" /\ pc = "done" /\ prevCall = "stop" /\ SingleProducer) =>
        \A k \in 1..Len(readLog) :
            readLog[k] \in Range(delivered) \/ readLog[k] \in dropped

\* C8: an exception in an iteration sends the thread to its pause of
\* ErrorPause seconds and from there back to the while test; the thread
\* ends only at the while test, with running False.
C8_ErrorNeverEndsLoop ==
    [][\A t \in ThreadIds :
          /\ (tpc[t] # "done" /\ tpc'[t] = "done") => (tpc[t] = "loop" /\ ~running)
          /\ (tpc[t] # "errsleep" /\ tpc'[t] = "errsleep") => tsleep'[t] = ErrorPause
          /\ (tpc[t] = "errsleep" /\ tpc'[t] # "errsleep") =>
                (tsleep[t] = 0 /\ tpc'[t] = "loop")
          /\ (tpc[t] \in {"check", "readline"} /\ tpc'[t] # tpc[t]) =>
                tpc'[t] \in {"loop", "readline", "put", "errsleep"}]_vars

\* C9: as long as no connect has succeeded, a start() has returned False, no
\* read thread exists and running is False; and monitor_serial, once past
\* its failed connect, has returned with no monitor and nothing consumed.
C9_ConnectFailureIsFatal ==
    /\ (program = "reader_api" /\ serial = "none") =>
          /\ ThreadsStarted = 0 /\ thread = 0 /\ ~running
          /\ prevCall = "start" => ret = "False"
    /\ (program = "monitor_serial" /\ serial = "none" /\ pc # "connect") =>
          /\ pc = "done" /\ ret = "False"
          /\ monitor = NoMonitor /\ delivered = <<>>
          /\ ThreadsStarted = 0 /\ thread = 0 /\ ~running

\* C18: the read loop runs only on a transport that a connect has opened
\* since the reader was last disconnected: whenever running is True and a
\* read thread is in its loop, the transport is open (so start() after
\* stop() does not run the loop on the closed transport).
C18_LoopRunsOnlyOnOpenTransport ==
    (running /\ \E t \in ThreadIds : Alive(t)) => serial = "open"

(***************************************************************************)
(* Properties of the replay, checked under SpecReplay.                     *)
(***************************************************************************)
\* the order of a replay: by timestamp, frames of equal timestamp in the
\* order of the file
Before(a, b) ==
    \/ RatLess(Ts(a), Ts(b))
    \/ RatEq(Ts(a), Ts(b)) /\ a.obj < b.obj

\* C5: the frames delivered to the monitor during a replay are frames of the
\* input, in timestamp order, each once, and none of the frames still to
\* come belongs before a delivered one: the delivered sequence is a prefix
\* of the input sorted by timestamp, whatever the speed.
C5_ReplayInTimestampOrder ==
    /\ \A j, k \in 1..Len(delivered) : j < k => Before(delivered[j], delivered[k])
    /\ Range(delivered) \subseteq Range(loaded)
    /\ \A o \in Range(loaded) \ Range(delivered) :
          \A d \in Range(delivered) : Before(d, o)

\* two frames delivered from a file that holds them out of timestamp order,
\* at a speed other than 1
C5_Witness ==
    /\ Len(delivered) >= 2
    /\ \E j, k \in 1..Len(loaded) : j < k /\ RatLess(Ts(loaded[k]), Ts(loaded[j]))
    /\ ~RatEq(replay_speed, Rat(1, 1))

\* C6: in both replay loops the quit signal is checked at least once per
\* delivered frame: never are two frames delivered with no check of the
\* keyboard between them.
C6_QuitCheckedPerFrame == sinceCheck <= 1

\* C10: parse_line raises on no line, and a line that is not a well-formed
\* frame line does not stop the stream: once read_all has returned, every
\* well-formed line of the file has its frame among the loaded ones.
C10_MalformedLineNeverStopsStream ==
    /\ \A k \in 1..fpos : parse_line(file_lines[k]).status # "ValueError"
    /\ pc # "read_all" =>
          \A k \in 1..Len(file_lines) :
              parse_line(file_lines[k]).status = "Frame" =>
                  \E o \in Range(loaded) : o.obj = k

\* C19: a frame is delivered to the monitor only when
\* (now - T0) * speed >= timestamp - R0, T0 the wall-clock start and R0 the
\* first frame's timestamp, in both replay loops and at every positive
\* speed.
C19_NeverDeliveredEarly ==
    [][delivered' # delivered =>
          LET frame == delivered'[Len(delivered')] IN
          RatLeq(RatSub(Ts(frame), Ts(messages[1])),
                 Rat((now - start_time) * replay_speed.n, 2 * replay_speed.d))]_vars

\* at half speed, a frame one log second after the first has been delivered,
\* two seconds or more after the start
C19_Witness ==
    /\ program = "monitor_file"
    /\ RatEq(replay_speed, Rat(1, 2))
    /\ Len(delivered) >= 2
    /\ RatLess(Ts(delivered[1]), Ts(delivered[Len(delivered)]))
    /\ now - start_time >= 4

\* the replay loop has been left at the user's quit
Cancelled ==
    pc \in {"curses_end", "console_end", "done"} /\ i < Len(messages)

\* C20: a replay of a non-empty frame sequence that is not cancelled (by
\* 'q' or by Ctrl-C) and that no exception ends eventually leaves its loop
\* with every frame delivered.
C20_ReplayTerminatesComplete ==
    (pc = "loaded" /\ messages # <<>>) ~>
        (\/ Cancelled
         \/ pc = "raised"
         \/ /\ pc \in {"curses_end", "console_end", "done"}
            /\ Len(delivered) = Len(loaded))

\* a curses replay at half speed has ended, uncancelled, with its frames of
\* different timestamps all delivered
C20_Witness ==
    /\ program = "monitor_file" /\ pc = "done" /\ use_curses
    /\ ~Cancelled
    /\ RatEq(replay_speed, Rat(1, 2))
    /\ Len(delivered) >= 2 /\ Len(delivered) = Len(loaded)
    /\ \E j, k \in 1..Len(delivered) : RatLess(Ts(delivered[j]), Ts(delivered[k]))

(***************************************************************************)
(* Properties of main, checked under SpecMain.                             *)
(***************************************************************************)
\* C11: no replay loop runs with a replay speed that is 0 or negative: such
\* a value is turned down before monitor_file starts its loop.
C11_NonPositiveSpeedRejected ==
    pc \in {"curses_getch", "curses_pace", "console_sleep", "console_deliver",
            "console_poll"} => replay_speed.n > 0

(***************************************************************************)
(* Properties of the catalog, checked under SpecCatalog.                   *)
(***************************************************************************)
\* the rows after the header that _load_ids should keep: four fields or
\* more, and an identifier that reads as hexadecimal
WellFormedRows ==
    {k \in 2..Len(ids_file.rows) :
        /\ Len(ids_file.rows[k]) >= 4
        /\ IntBase16(Strip(Lower(ids_file.rows[k][1]))).ok}
RowId(k) == IntBase16(Strip(Lower(ids_file.rows[k][1]))).val

\* C12: once _load_ids has returned, the catalog holds exactly the
\* well-formed rows of a file that opens (malformed rows skipped), and is
\* empty for a file that does not open; with the empty catalog every frame
\* decodes with source 'Unknown'.
C12_CatalogHoldsWellFormedRows ==
    pc \in {"loaded", "done"} =>
        /\ ids_file.opens =>
              /\ DOMAIN ids_lookup = {RowId(k) : k \in WellFormedRows}
              /\ \A k \in WellFormedRows :
                    (\A j \in WellFormedRows : RowId(j) = RowId(k) => j <= k) =>
                        ids_lookup[RowId(k)] =
                            [source |-> ids_file.rows[k][2],
                             frequency |-> ids_file.rows[k][3],
                             data_bytes |-> ids_file.rows[k][4]]
        /\ ~ids_file.opens => DOMAIN ids_lookup = {}
        /\ (pc = "done" /\ DOMAIN ids_lookup = {}) => result.source = "Unknown"

(***************************************************************************)
(* Properties of the decoder, checked under SpecDecode.                    *)
(***************************************************************************)
\* the signals of each identifier, with the last payload offset (0-based)
\* its rule reads
SignalOffsets ==
    {[id |-> 384, key |-> "rpm", last |-> 1],
     [id |-> 384, key |-> "throttle_pct", last |-> 5],
     [id |-> 505, key |-> "rpm", last |-> 3],
     [id |-> 640, key |-> "speed_kph", last |-> 5],
     [id |-> 640, key |-> "speed_mph", last |-> 5],
     [id |-> 2, key |-> "steering_angle", last |-> 1],
     [id |-> 1361, key |-> "engine_temp", last |-> 0],
     [id |-> 1361, key |-> "cruise_setpoint_kph", last |-> 4],
     [id |-> 1361, key |-> "cruise_status", last |-> 5],
     [id |-> 534, key |-> "clutch", last |-> 0],
     [id |-> 1057, key |-> "gear", last |-> 0]}
BaseFields == {"timestamp", "can_id", "can_id_hex", "msg_type", "data", "raw"}

\* C13: decode_message returns a frame for every identifier and payload
\* length; a signal whose rule reads an offset beyond the payload has no key
\* in it; and the base fields are those of the input frame.
C13_ShortPayloadOmitsSignals ==
    (program = "decode" /\ pc = "done" /\ result.status \notin {"NoMatch", "ValueError"}) =>
        /\ result.status = "Decoded"
        /\ \A sig \in SignalOffsets :
              (result.message.can_id = sig.id /\ Len(result.message.data) <= sig.last) =>
                  sig.key \notin DOMAIN result.decoded
        /\ \A f \in BaseFields :
              f \in DOMAIN result.decoded /\ result.decoded[f] = result.message[f]

\* a frame of identifier 0x551 with five payload bytes has been decoded: the
\* fifth byte is there, the sixth is not, and no signal is in the result
C13_Witness ==
    /\ program = "decode" /\ pc = "done" /\ result.status = "Decoded"
    /\ result.message.can_id = 1361
    /\ Len(result.message.data) = 5
    /\ DOMAIN result.decoded = BaseFields \cup {"source", "frequency"}

\* a frame of the given identifier has been decoded
Decoded(can_id) ==
    /\ program = "decode" /\ pc = "done" /\ result.status = "Decoded"
    /\ result.message.can_id = can_id

\* C14: for identifier 0x551 with six payload bytes or more, a setpoint byte
\* of 0 leaves the frame without any cruise setpoint key, a non-zero one is
\* the setpoint, and the cruise status is 'Active' exactly when byte 5 is 2.
C14_CruiseSetpointAbsentWhenZero ==
    (Decoded(1361) /\ Len(result.message.data) >= 6) =>
        LET data == result.message.data
            out == result.decoded
        IN  /\ data[5] = 0 => "cruise_setpoint_kph" \notin DOMAIN out
            /\ data[5] # 0 =>
                  /\ "cruise_setpoint_kph" \in DOMAIN out
                  /\ out["cruise_setpoint_kph"] = Rat(data[5], 1)
            /\ out["cruise_status"] = IF data[6] = 2 THEN "Active" ELSE "Inactive"

\* C15: for identifier 0x002 and payload bytes b0, b1, with
\* raw = b1 * 256 + b0, the steering angle in tenths of a degree is raw when
\* raw <= 32767 and -(65535 - raw) when raw > 32767; bytes 0x64 0x00 give
\* 10.0.
C15_SteeringSignedMagnitude ==
    (Decoded(2) /\ Len(result.message.data) >= 2) =>
        LET raw == result.message.data[2] * 256 + result.message.data[1]
            angle == result.decoded["steering_angle"]
            tenths == IF raw <= 32767 THEN raw ELSE 0 - (65535 - raw)
        IN  /\ angle.d > 0
            /\ angle.n * 10 = tenths * angle.d
            /\ (result.message.data[1] = 100 /\ result.message.data[2] = 0) =>
                  RatEq(angle, Rat(10, 1))

\* the bytes 0x00 0x80, raw 32768, have been decoded to -3276.7
C15_Witness ==
    /\ Decoded(2)
    /\ result.message.data = <<0, 128>>
    /\ RatEq(result.decoded["steering_angle"], Rat(0 - 32767, 10))

\* C16: for identifier 0x421 the byte 24 gives 'Neutral', 128 gives '1', 16
\* gives 'R' and any other value v gives 'Unknown(v)'; for identifier 0x216
\* the byte 100 gives 'Engaged', 108 gives 'Pressed' and any other value v
\* gives 'Unknown(v)'.
C16_EnumRulesAsStated ==
    /\ (Decoded(1057) /\ Len(result.message.data) >= 1) =>
          LET v == result.message.data[1] IN
          result.decoded["gear"] =
              IF v = 24 THEN "Neutral"
              ELSE IF v = 128 THEN "1"
              ELSE IF v = 16 THEN "R"
              ELSE "Unknown(" \o ToString(v) \o ")"
    /\ (Decoded(534) /\ Len(result.message.data) >= 1) =>
          LET v == result.message.data[1] IN
          result.decoded["clutch"] =
              IF v = 100 THEN "Engaged"
              ELSE IF v = 108 THEN "Pressed"
              ELSE "Unknown(" \o ToString(v) \o ")"

Abs(x) == IF x < 0 THEN 0 - x ELSE x

\* C17: a line of identifier 0x180 with the payload b0 b1 00 00 00 b5 00 00,
\* parsed and decoded, gives identifier 0x180, rpm (b0 * 256 + b1) / 8 and
\* as throttle the tenth nearest to b5 / 255 * 100; the line
\* '1000.250 RX: [0180](ext) 07 D0 00 00 00 80 00 00' gives rpm 250.0 and
\* throttle 50.2.
C17_RpmAndThrottleFromLine ==
    (program = "decode" /\ pc = "done") =>
        /\ \A b0, b1, b5 \in SampleByteTokens :
              arg = Line180(b0, b1, b5) =>
                  /\ result.status = "Decoded"
                  /\ result.decoded["can_id"] = 384
                  /\ result.decoded["can_id_hex"] = <<"0","x","1","8","0">>
                  /\ RatEq(result.decoded["rpm"], Rat(b0.value * 256 + b1.value, 8))
                  /\ LET throttle == result.decoded["throttle_pct"] IN
                        /\ throttle.d = 10
                        /\ 2 * Abs(throttle.n * 255 - b5.value * 1000) <= 255
        /\ arg = LineRpm =>
              /\ result.status = "Decoded"
              /\ RatEq(result.decoded["rpm"], Rat(250, 1))
              /\ RatEq(result.decoded["throttle_pct"], Rat(502, 10))

\* the line of the example has been parsed and decoded
C17_Witness ==
    /\ program = "decode" /\ pc = "done"
    /\ arg = LineRpm
    /\ result.status = "Decoded"
    /\ result.decoded["data"] = <<7, 208, 0, 0, 0, 128, 0, 0>>

(***************************************************************************)
(* The read thread after a stop request, the ways a live session ends, and *)
(* the number of read threads.                                             *)
(***************************************************************************)
\* C21: a read thread that was alive when stop() set self.running = False
\* finishes the iteration it is in and leaves at its next while test: it
\* never begins another iteration.
C21_SignalledThreadLeavesAtNextTest ==
    [][\A t \in ThreadIds :
          (t \in signalled /\ tpc[t] = "loop") => tpc'[t] # "check"]_vars

\* C22: when monitor_serial has returned or let an exception through after
\* a session began, the read thread is no longer signalled to run, the port
\* is no longer open and the monitor's database, if it has one, is closed.
C22_EveryExitPassesThroughStop ==
    (program = "monitor_serial" /\ pc \in {"done", "raised"} /\ thread # 0) =>
        /\ ~running
        /\ serial # "open"
        /\ monitor.db # "open"

\* C23: at most one read thread of the reader is alive at any time.
C23_AtMostOneReadThreadAlive ==
    Cardinality({t \in ThreadIds : Alive(t)}) <= 1

(***************************************************************************)
(* Properties of CANMonitor.update, checked under SpecMonitor.             *)
(***************************************************************************)
\* the frames of one identifier handed to update so far, in delivery order
RECURSIVE FramesOf(_, _)
FramesOf(can_id_hex, objects) ==
    IF objects = <<>> THEN <<>>
    ELSE LET rest == FramesOf(can_id_hex, Tail(objects))
         IN  IF Head(objects).val.can_id_hex = can_id_hex
             THEN <<Head(objects).val>> \o rest ELSE rest

\* the last n elements of a sequence
LastOf(seq, n) ==
    IF Len(seq) > n THEN SubSeq(seq, Len(seq) - n + 1, Len(seq)) ELSE seq

\* C24: after any sequence of update calls there is a history for exactly
\* the identifiers delivered, each holds at most history_length frames, and
\* they are the last history_length frames delivered for that identifier,
\* oldest first.
C24_HistoryHoldsMostRecent ==
    (program = "monitor_api" /\ pc # "new") =>
        /\ DOMAIN monitor.message_history = {o.val.can_id_hex : o \in Range(delivered)}
        /\ \A can_id_hex \in DOMAIN monitor.message_history :
              /\ Len(monitor.message_history[can_id_hex]) <= monitor.history_length
              /\ monitor.message_history[can_id_hex]
                    = LastOf(FramesOf(can_id_hex, delivered), monitor.history_length)

\* a history of two frames has evicted its oldest frame
C24_Witness ==
    /\ program = "monitor_api" /\ pc # "new"
    /\ monitor.history_length = 2
    /\ \E can_id_hex \in DOMAIN monitor.message_history :
          /\ Len(FramesOf(can_id_hex, delivered)) > 2
          /\ Len(monitor.message_history[can_id_hex]) = 2
          /\ monitor.message_history[can_id_hex][1] # FramesOf(can_id_hex, delivered)[1]

\* C25: an update call leaves the key set of latest_values as it was, leaves
\* every entry whose key the frame does not carry as it was, and leaves the
\* history of every identifier other than the frame's as it was.
C25_UpdateTouchesOnlyCarriedSignals ==
    [][(program = "monitor_api" /\ calls' = calls + 1) =>
          \/ delivered' = delivered /\ monitor' = monitor
          \/ LET frame == delivered'[Len(delivered')].val IN
                /\ DOMAIN monitor'.latest_values = DOMAIN monitor.latest_values
                /\ \A key \in DOMAIN monitor.latest_values :
                      key \notin DOMAIN frame =>
                          monitor'.latest_values[key] = monitor.latest_values[key]
                /\ DOMAIN monitor'.message_history
                      = DOMAIN monitor.message_history \cup {frame.can_id_hex}
                /\ \A can_id_hex \in DOMAIN monitor.message_history :
                      can_id_hex # frame.can_id_hex =>
                          monitor'.message_history[can_id_hex]
                             = monitor.message_history[can_id_hex]]_vars

\* the last frame handed to update carried no rpm, after an earlier frame
\* had set it, and another identifier has a history
C25_Witness ==
    /\ program = "monitor_api" /\ Len(delivered) >= 2
    /\ "rpm" \notin DOMAIN delivered[Len(delivered)].val
    /\ monitor.latest_values["rpm"] # Rat(0, 1)
    /\ \E can_id_hex \in DOMAIN monitor.message_history :
          /\ can_id_hex # delivered[Len(delivered)].val.can_id_hex
          /\ Len(monitor.message_history[can_id_hex]) >= 1

=============================================================================
